---- MODULE Spec2Model ----
(***************************************************************************)
(* Analytics endpoints of the clinic backend                               *)
(* (backend/app/api/endpoints/analytics.py): period resolution, the        *)
(* clinical and financial aggregations, the result cache they share and    *)
(* the custom report engine.                                               *)
(*                                                                         *)
(* Conventions                                                             *)
(*  - An instant (Python datetime, UTC) is a record [day, sec, us]: the    *)
(*    proleptic Gregorian ordinal of its date, the second of the day and   *)
(*    the microsecond.  timedelta.days is the day component of a           *)
(*    normalised difference, as in Python.                                 *)
(*  - Money is an integer number of cents.                                 *)
(*  - None / SQL NULL: 0 for an id, NoInstant for a date.                  *)
(*  - A query result is the set of its rows; ORDER BY only arranges them.  *)
(***************************************************************************)
EXTENDS Integers, Sequences, FiniteSets, TLC

VARIABLES
    db,         \* the persisted store: one set of rows per table
    cache,      \* analytics_cache: key -> entry
    now,        \* the clock (UTC)
    ticks,      \* number of clock advances so far
    last,       \* the outcome of the request handled by the last step
    hist,       \* per cache key: the last response computed, the last call answered
    served,     \* number of requests handled so far
    run2,       \* second run of the two-run composition (store and cache)
    flight      \* the requests in progress: what each has read and computed so far

vars == <<db, cache, now, ticks, last, hist, served, run2, flight>>

-----------------------------------------------------------------------------
(* Bounds of the model *)

MaxInvoices == 2
MaxPayments == 2
MaxLines == 2
MaxAppointments == 2
MaxDiagnoses == 2
MaxFaults == 1
MaxTicks == 4
MaxServed == 3
MaxFlights == 2
MaxPatients == 4

-----------------------------------------------------------------------------
(* Time: datetime, timedelta, calendar *)

SecondsPerDay == 86400

NoInstant == [day |-> 0, sec |-> 0, us |-> 0]

IsLeap(y) == (y % 4 = 0) /\ ((y % 100 # 0) \/ (y % 400 = 0))

DaysInMonth(y, m) ==
    IF m = 2 THEN (IF IsLeap(y) THEN 29 ELSE 28)
    ELSE IF m \in {4, 6, 9, 11} THEN 30 ELSE 31

DaysBeforeYear(y) ==
    LET p == y - 1 IN p * 365 + (p \div 4) - (p \div 100) + (p \div 400)

RECURSIVE DaysBeforeMonth(_, _)
DaysBeforeMonth(y, m) ==
    IF m = 1 THEN 0 ELSE DaysBeforeMonth(y, m - 1) + DaysInMonth(y, m - 1)

\* date(y, m, d).toordinal()
Ymd2Ord(y, m, d) == DaysBeforeYear(y) + DaysBeforeMonth(y, m) + d

\* date.fromordinal(n): year, month, day of month
OrdYear(n) ==
    LET g == (((n - 1) * 400) \div 146097) + 1
    IN  IF DaysBeforeYear(g) >= n THEN g - 1
        ELSE IF DaysBeforeYear(g + 1) < n THEN g + 1
        ELSE g

OrdMonth(n) ==
    LET y == OrdYear(n)
        r == n - DaysBeforeYear(y)
    IN  CHOOSE m \in 1..12 :
            DaysBeforeMonth(y, m) < r /\ r <= DaysBeforeMonth(y, m) + DaysInMonth(y, m)

OrdDay(n) ==
    LET y == OrdYear(n) IN n - DaysBeforeYear(y) - DaysBeforeMonth(y, OrdMonth(n))

At(y, m, d, s) == [day |-> Ymd2Ord(y, m, d), sec |-> s, us |-> 0]

\* a <= b on datetimes
Leq(a, b) ==
    \/ a.day < b.day
    \/ a.day = b.day /\ a.sec < b.sec
    \/ a.day = b.day /\ a.sec = b.sec /\ a.us <= b.us

Lt(a, b) == Leq(a, b) /\ a # b

\* t + timedelta(days=k), k of either sign
AddDays(t, k) == [t EXCEPT !.day = t.day + k]

\* t + timedelta(seconds=k), k of either sign
AddSeconds(t, k) ==
    LET tot == t.sec + k
    IN  [day |-> t.day + (tot \div SecondsPerDay),
         sec |-> tot % SecondsPerDay,
         us  |-> t.us]

\* (a - b).days for a >= b: the day component of the normalised timedelta
DeltaDays(a, b) ==
    (a.day - b.day)
    - (IF a.sec < b.sec \/ (a.sec = b.sec /\ a.us < b.us) THEN 1 ELSE 0)

\* t.replace(day=1, hour=0, minute=0, second=0, microsecond=0)
FirstOfMonth(t) ==
    [day |-> Ymd2Ord(OrdYear(t.day), OrdMonth(t.day), 1), sec |-> 0, us |-> 0]

\* datetime.isoformat(): the civil fields it prints
IsoFormat(t) ==
    <<OrdYear(t.day), OrdMonth(t.day), OrdDay(t.day),
      t.sec \div 3600, (t.sec \div 60) % 60, t.sec % 60, t.us>>

\* strftime('%Y-%m') of date_trunc('month', t)
MonthOf(t) == <<OrdYear(t.day), OrdMonth(t.day)>>

\* _period_to_dates with last_month ending at the first instant of this month
PeriodLastMonthOpenEnd(period, t) ==
    IF period = "last_7_days" THEN <<AddDays(t, -7), t>>
    ELSE IF period = "last_30_days" THEN <<AddDays(t, -30), t>>
    ELSE IF period = "last_3_months" THEN <<AddDays(t, -90), t>>
    ELSE IF period = "last_year" THEN <<AddDays(t, -365), t>>
    ELSE IF period = "last_month" THEN
        <<FirstOfMonth(AddSeconds(FirstOfMonth(t), -1)), FirstOfMonth(t)>>
    ELSE <<AddDays(t, -30), t>>

\* _period_to_dates with last_month taken as the interval from the end of the
\* previous month back to its first instant (start and end exchanged)
PeriodLastMonthSwapped(period, t) ==
    IF period = "last_7_days" THEN <<AddDays(t, -7), t>>
    ELSE IF period = "last_30_days" THEN <<AddDays(t, -30), t>>
    ELSE IF period = "last_3_months" THEN <<AddDays(t, -90), t>>
    ELSE IF period = "last_year" THEN <<AddDays(t, -365), t>>
    ELSE IF period = "last_month" THEN
        <<AddSeconds(FirstOfMonth(t), -1), FirstOfMonth(AddSeconds(FirstOfMonth(t), -1))>>
    ELSE <<AddDays(t, -30), t>>

\* _period_to_dates with last_3_months taken as 3 months of 31 days
PeriodQuarterOf93Days(period, t) ==
    IF period = "last_7_days" THEN <<AddDays(t, -7), t>>
    ELSE IF period = "last_30_days" THEN <<AddDays(t, -30), t>>
    ELSE IF period = "last_3_months" THEN <<AddDays(t, -93), t>>
    ELSE IF period = "last_year" THEN <<AddDays(t, -365), t>>
    ELSE IF period = "last_month" THEN
        <<FirstOfMonth(AddSeconds(FirstOfMonth(t), -1)), AddSeconds(FirstOfMonth(t), -1)>>
    ELSE <<AddDays(t, -30), t>>

\* _period_to_dates with the default branch returning the last 7 days
PeriodDefaultWeek(period, t) ==
    IF period = "last_7_days" THEN <<AddDays(t, -7), t>>
    ELSE IF period = "last_30_days" THEN <<AddDays(t, -30), t>>
    ELSE IF period = "last_3_months" THEN <<AddDays(t, -90), t>>
    ELSE IF period = "last_year" THEN <<AddDays(t, -365), t>>
    ELSE IF period = "last_month" THEN
        <<FirstOfMonth(AddSeconds(FirstOfMonth(t), -1)), AddSeconds(FirstOfMonth(t), -1)>>
    ELSE <<AddDays(t, -7), t>>

\* _period_to_dates(period) when the clock reads t: <<start, end>>
_period_to_dates(period, t) ==
    IF period = "last_7_days" THEN <<AddDays(t, -7), t>>
    ELSE IF period = "last_30_days" THEN <<AddDays(t, -30), t>>
    ELSE IF period = "last_3_months" THEN <<AddDays(t, -90), t>>
    ELSE IF period = "last_year" THEN <<AddDays(t, -365), t>>
    ELSE IF period = "last_month" THEN
        LET first_this_month == FirstOfMonth(t)
            last_month_end == AddSeconds(first_this_month, -1)
            last_month_start == FirstOfMonth(last_month_end)
        IN  <<last_month_start, last_month_end>>
    ELSE <<AddDays(t, -30), t>>

-----------------------------------------------------------------------------
(* The persisted store *)

\* users that are doctors (app.models.User): id, clinic, first and last name
Users ==
    { [id |-> 1, clinic_id |-> 1, first_name |-> "Ana", last_name |-> "Lima"],
      [id |-> 2, clinic_id |-> 2, first_name |-> "Rui", last_name |-> "Reis"] }

\* app.models.financial.ServiceItem: id, name
ServiceItems ==
    { [id |-> 1, name |-> "Consulta"], [id |-> 2, name |-> "Exame"] }

EmptyDb ==
    [invoices |-> {}, payments |-> {}, lines |-> {},
     appointments |-> {}, patients |-> {}, diagnoses |-> {}]

RECURSIVE SumFun(_, _)
SumFun(f, S) ==
    IF S = {} THEN 0
    ELSE LET x == CHOOSE x \in S : TRUE IN f[x] + SumFun(f, S \ {x})

RECURSIVE Gcd(_, _)
Gcd(a, b) == IF b = 0 THEN a ELSE Gcd(b, a % b)

\* a / b for b > 0, as the reduced fraction <<numerator, denominator>>
Ratio(a, b) == LET g == Gcd(a, b) IN IF g = 0 THEN <<0, 1>> ELSE <<a \div g, b \div g>>

\* round(a / b) to the nearest integer, ties to even (a >= 0, b > 0)
RoundDiv(a, b) ==
    LET q == a \div b
        r == a % b
    IN  IF 2 * r < b THEN q
        ELSE IF 2 * r > b THEN q + 1
        ELSE IF q % 2 = 0 THEN q ELSE q + 1

\* the first n rows of a result ordered by val descending (LIMIT n)
RECURSIVE TopN(_, _, _)
TopN(rows, val, n) ==
    IF n = 0 \/ rows = {} THEN {}
    ELSE LET r == CHOOSE r \in rows : \A o \in rows : val[o] <= val[r]
         IN  {r} \cup TopN(rows \ {r}, val, n - 1)

-----------------------------------------------------------------------------
(* get_financial_analytics: the six aggregation queries *)

\* RevenueFilter without the test of the status
RevenueFilterAnyStatus(D, c, s, e) ==
    { i \in D.invoices :
        /\ i.clinic_id = c
        /\ Leq(s, i.issue_date)
        /\ Leq(i.issue_date, e) }

\* WHERE clinic_id = c AND issue_date BETWEEN s AND e AND status != CANCELLED
RevenueFilter(D, c, s, e) ==
    { i \in D.invoices :
        /\ i.clinic_id = c
        /\ Leq(s, i.issue_date)
        /\ Leq(i.issue_date, e)
        /\ i.status # "CANCELLED" }

\* the doctor an invoice joins to through its appointment, as a set (inner join)
DoctorsOf(D, i) ==
    { u \in Users : \E a \in D.appointments :
        a.id = i.appointment_id /\ u.id = a.doctor_id }

RevenueByDoctor(D, c, s, e) ==
    LET rows == { <<i, u>> \in RevenueFilter(D, c, s, e) \X Users : u \in DoctorsOf(D, i) }
        groups == { <<p[2].first_name, p[2].last_name>> : p \in rows }
    IN  { [doctor_name |-> g[1] \o " " \o g[2],
           total_revenue |->
              LET grp == { p \in rows : <<p[2].first_name, p[2].last_name>> = g }
              IN  SumFun([p \in grp |-> p[1].total_amount], grp)] : g \in groups }

\* invoice lines joined to their invoice (filtered) and their service item
ServiceRows(D, c, s, e) ==
    { <<l, i, v>> \in D.lines \X RevenueFilter(D, c, s, e) \X ServiceItems :
        l.invoice_id = i.id /\ l.service_item_id = v.id }

RevenueByService(D, c, s, e) ==
    LET rows == ServiceRows(D, c, s, e)
        groups == { p[3].name : p \in rows }
        res == { [service_name |-> g,
                  total_revenue |->
                     LET grp == { p \in rows : p[3].name = g }
                     IN  SumFun([p \in grp |-> p[1].line_total], grp)] : g \in groups }
    IN  TopN(res, [r \in res |-> r.total_revenue], 15)

MonthlyRevenueTrend(D, c, s, e) ==
    LET rows == RevenueFilter(D, c, AddDays(s, -120), e)
        groups == { MonthOf(i.issue_date) : i \in rows }
    IN  { [month |-> g,
           total_revenue |->
              LET grp == { i \in rows : MonthOf(i.issue_date) = g }
              IN  SumFun([i \in grp |-> i.total_amount], grp)] : g \in groups }

\* <<count(Invoice.id), coalesce(sum(total_amount), 0)>>
Totals(D, c, s, e) ==
    LET rows == RevenueFilter(D, c, s, e)
    IN  <<Cardinality(rows), SumFun([i \in rows |-> i.total_amount], rows)>>

\* AverageInvoiceValue with the denominator guarded as total_invoices + 1
AverageGuardPlusOne(total_invoices, total_revenue) ==
    RoundDiv(total_revenue, total_invoices + 1)

\* round(total_revenue / max(total_invoices, 1), 2), in cents
AverageInvoiceValue(total_invoices, total_revenue) ==
    RoundDiv(total_revenue, IF total_invoices > 1 THEN total_invoices ELSE 1)

BucketNames == {"current", "1-30", "31-60", "61-90", ">90"}

\* ZeroBuckets with the amount added before the failure left in its bucket
BucketsNotReset == [b \in BucketNames |-> IF b = "current" THEN 1 ELSE 0]

\* buckets as initialised, and as reset by the except clause of the aging block
ZeroBuckets == [b \in BucketNames |-> 0]

\* PaidSum with every payment counted as paid, whatever its status
PaidSumAnyStatus(D, i) ==
    LET ps == { p \in D.payments : p.invoice_id = i.id }
    IN  SumFun([p \in ps |-> p.amount], ps)

\* paid_sum_subq joined to an invoice: coalesce(sum of its COMPLETED payments, 0)
PaidSum(D, i) ==
    LET ps == { p \in D.payments : p.invoice_id = i.id /\ p.status = "COMPLETED" }
    IN  SumFun([p \in ps |-> p.amount], ps)

\* AgingRows without the bound on the issue date
AgingRowsAnyIssueDate(D, c, e) ==
    { <<i, i.total_amount - PaidSum(D, i)>> : i \in
        { j \in D.invoices : j.clinic_id = c /\ j.status \notin {"CANCELLED"} } }

\* rows of aging_stmt: <<invoice, unpaid>>
AgingRows(D, c, e) ==
    { <<i, i.total_amount - PaidSum(D, i)>> : i \in
        { j \in D.invoices :
            /\ j.clinic_id = c
            /\ j.status \notin {"CANCELLED"}
            /\ Leq(j.issue_date, e) } }

\* AgingBucket with the thresholds exclusive (days < 30, < 60, < 90)
AgingBucketExclusive(unpaid, due, t) ==
    IF unpaid <= 0 THEN "none"
    ELSE IF due = NoInstant THEN "current"
    ELSE IF Leq(t, due) THEN "current"
    ELSE LET days == DeltaDays(t, due)
         IN  IF days < 30 THEN "1-30"
             ELSE IF days < 60 THEN "31-60"
             ELSE IF days < 90 THEN "61-90"
             ELSE ">90"

\* the bucket one aging row adds its unpaid amount to ("none": the row is skipped)
AgingBucket(unpaid, due, t) ==
    IF unpaid <= 0 THEN "none"
    ELSE IF due = NoInstant THEN "current"
    ELSE IF Leq(t, due) THEN "current"
    ELSE LET days == DeltaDays(t, due)
         IN  IF days <= 30 THEN "1-30"
             ELSE IF days <= 60 THEN "31-60"
             ELSE IF days <= 90 THEN "61-90"
             ELSE ">90"

ArAging(D, c, e, t) ==
    LET rows == AgingRows(D, c, e)
    IN  [b \in BucketNames |->
            LET in_b == { r \in rows : AgingBucket(r[2], r[1].due_date, t) = b }
            IN  SumFun([r \in in_b |-> r[2]], in_b)]

\* CostPerProcedure with the quantity floored at 1 in place of nullif
CostPerProcedureFlooredQuantity(D, c, s, e) ==
    LET rows == ServiceRows(D, c, s, e)
        groups == { p[3].name : p \in rows }
        res == { [service_name |-> g,
                  avg_cost |->
                     LET grp == { p \in rows : p[3].name = g }
                         tot == SumFun([p \in grp |-> p[1].line_total], grp)
                         qty == SumFun([p \in grp |-> p[1].quantity], grp)
                     IN  Ratio(tot, IF qty = 0 THEN 1 ELSE qty)] : g \in groups }
    IN  TopN(res, [r \in res |-> 1], 20)

\* sum(line_total) / nullif(sum(quantity), 0) per service item, float(avg_cost or 0)
CostPerProcedure(D, c, s, e) ==
    LET rows == ServiceRows(D, c, s, e)
        groups == { p[3].name : p \in rows }
        res == { [service_name |-> g,
                  avg_cost |->
                     LET grp == { p \in rows : p[3].name = g }
                         tot == SumFun([p \in grp |-> p[1].line_total], grp)
                         qty == SumFun([p \in grp |-> p[1].quantity], grp)
                     IN  IF qty = 0 THEN <<0, 1>> ELSE Ratio(tot, qty)] : g \in groups }
    IN  TopN(res, [r \in res |-> 1], 20)

-----------------------------------------------------------------------------
(* analytics_cache (app.core.cache): get(key), set(key, value, ttl_seconds) *)

TTL == 300

NoBody == [period |-> "none"]

\* CacheKey without the clinic in it
CacheKeyNoClinic(domain, clinic_id, period) == <<domain, 0, period>>

\* f"{domain}:{clinic_id}:{period}"
CacheKey(domain, clinic_id, period) == <<domain, clinic_id, period>>

\* get(key) at time t: <<TRUE, value>> for an entry that has not expired,
\* <<FALSE, NoBody>> for None.  `strict` is the comparison the cache makes at the
\* very instant of expiry: TRUE for "expired", FALSE for "still valid".
CacheGet(C, key, t, strict) ==
    LET es == { x \in C : x.key = key /\ (Lt(t, x.expires) \/ (~strict /\ t = x.expires)) }
    IN  IF es = {} THEN <<FALSE, NoBody>> ELSE <<TRUE, (CHOOSE x \in es : TRUE).value>>

\* the store after set(key, value, ttl_seconds) at time t
CacheSet(C, key, value, ttl_seconds, t) ==
    { x \in C : x.key # key }
    \cup { [key |-> key, value |-> value, expires |-> AddSeconds(t, ttl_seconds)] }

-----------------------------------------------------------------------------
(* get_financial_analytics *)

\* the statements in the order the handler executes them
FinancialQueries == <<"rev_doctor", "rev_service", "month", "total", "aging", "cpp">>

\* IsolatedQueries with the try block around the aging statement missing
IsolatedOnlyCpp == {"cpp"}

\* the statements that run inside a try block of their own
IsolatedQueries == {"aging", "cpp"}

\* the classes an except clause matches an exception of class cls with
ExceptionBases(cls) ==
    IF cls = "none" THEN {} ELSE {cls, "Exception"}

Outcome(raised, status, detail, body, queries, cache_get, cache_set) ==
    [raised |-> raised, status |-> status, detail |-> detail, body |-> body,
     queries |-> queries, cache_get |-> cache_get, cache_set |-> cache_set]

\* the body of the try block from the first statement to the response, on a cache
\* miss; the statements in `failed` raise SQLAlchemyError when executed
FinancialCompute(D, c, period, t, failed) ==
    LET se == _period_to_dates(period, t)
        fatal == { k \in 1..Len(FinancialQueries) :
                     /\ FinancialQueries[k] \in failed
                     /\ FinancialQueries[k] \notin IsolatedQueries }
        tot == Totals(D, c, se[1], se[2])
    IN  IF fatal # {}
        THEN Outcome("SQLAlchemyError", 0, "", NoBody,
                     CHOOSE k \in fatal : \A o \in fatal : k <= o, TRUE, FALSE)
        ELSE Outcome("none", 200, "",
                [period |-> period,
                 start_date |-> IsoFormat(se[1]),
                 end_date |-> IsoFormat(se[2]),
                 revenue_by_doctor |-> RevenueByDoctor(D, c, se[1], se[2]),
                 revenue_by_service |-> RevenueByService(D, c, se[1], se[2]),
                 monthly_revenue_trend |-> MonthlyRevenueTrend(D, c, se[1], se[2]),
                 total_revenue |-> tot[2],
                 average_invoice_value |-> AverageInvoiceValue(tot[1], tot[2]),
                 total_invoices |-> tot[1],
                 ar_aging |-> IF "aging" \in failed THEN ZeroBuckets
                              ELSE ArAging(D, c, se[2], t),
                 cost_per_procedure |-> IF "cpp" \in failed THEN {}
                                        ELSE CostPerProcedure(D, c, se[1], se[2]),
                 denial_patterns |-> {}],
                Len(FinancialQueries), TRUE, TRUE)

\* FinancialTry with the cached response ignored: every call computes
FinancialTryNoCache(clinic_id, period, D, got, t, failed) ==
    IF clinic_id = 0
    THEN Outcome("HTTPException", 400, "User is not associated with a clinic",
                 NoBody, 0, FALSE, FALSE)
    ELSE FinancialCompute(D, clinic_id, period, t, failed)

\* the try block: clinic check, cache lookup (got = what cache.get returned), compute
FinancialTry(clinic_id, period, D, got, t, failed) ==
    IF clinic_id = 0
    THEN Outcome("HTTPException", 400, "User is not associated with a clinic",
                 NoBody, 0, FALSE, FALSE)
    ELSE IF got[1]
    THEN Outcome("none", 200, "", got[2], 0, TRUE, FALSE)
    ELSE FinancialCompute(D, clinic_id, period, t, failed)

\* FinancialExcept with a failure turned into a response without the failed parts
FinancialExceptPartial(r) ==
    IF "Exception" \in ExceptionBases(r.raised)
    THEN [r EXCEPT !.raised = "none", !.status = 200,
                   !.body = [period |-> "", revenue_by_doctor |-> {}]]
    ELSE r

\* the except clauses of the handler, applied to what the try block did
FinancialExcept(r) ==
    IF "SQLAlchemyError" \in ExceptionBases(r.raised)
    THEN [r EXCEPT !.raised = "HTTPException", !.status = 500,
                   !.detail = "Database error"]
    ELSE IF "Exception" \in ExceptionBases(r.raised)
    THEN [r EXCEPT !.raised = "HTTPException", !.status = 500,
                   !.detail = "Error generating financial analytics"]
    ELSE r

get_financial_analytics(clinic_id, period, D, got, t, failed) ==
    FinancialExcept(FinancialTry(clinic_id, period, D, got, t, failed))

-----------------------------------------------------------------------------
(* get_clinical_analytics *)

\* WHERE clinic_id = c AND scheduled_datetime BETWEEN s AND e
AppointmentFilter(D, c, s, e) ==
    { a \in D.appointments :
        /\ a.clinic_id = c
        /\ Leq(s, a.scheduled_datetime)
        /\ Leq(a.scheduled_datetime, e) }

TopDiagnoses(D, c, s, e) ==
    LET rows == { <<d, a>> \in D.diagnoses \X AppointmentFilter(D, c, s, e) :
                    d.appointment_id = a.id }
        groups == { <<p[1].cid_code, p[1].description>> : p \in rows }
        res == { [icd10_code |-> g[1], description |-> g[2],
                  count |-> Cardinality({ p \in rows :
                                <<p[1].cid_code, p[1].description>> = g })] : g \in groups }
    IN  TopN(res, [r \in res |-> r.count], 10)

\* Age as the difference of the calendar years alone
AgeByYearOnly(dob, today) == OrdYear(today) - OrdYear(dob)

\* _age(dob) on the day `today` (ordinals), for a dob that is not None; the
\* result may be negative (a date of birth after today)
Age(dob, today) ==
    (OrdYear(today) - OrdYear(dob))
    - (IF \/ OrdMonth(today) < OrdMonth(dob)
          \/ (OrdMonth(today) = OrdMonth(dob) /\ OrdDay(today) < OrdDay(dob))
       THEN 1 ELSE 0)

AgeGroups == <<"0-17", "18-35", "36-55", "56+">>

AgeGroup(age) ==
    IF age <= 17 THEN "0-17"
    ELSE IF age <= 35 THEN "18-35"
    ELSE IF age <= 55 THEN "36-55"
    ELSE "56+"

\* AgeGroup of a row, with a row that has no date of birth put in the first group
AgeGroupOfRowNoneFirst(dob, today) ==
    IF dob = 0 THEN "0-17" ELSE AgeGroup(Age(dob, today))

\* the group a row of pat_stmt is counted in ("none": the loop skips the row)
AgeGroupOfRow(dob, today) ==
    IF dob = 0 THEN "none" ELSE AgeGroup(Age(dob, today))

\* one row of pat_stmt per (patient, appointment) pair of the join; a row whose
\* dob is None is skipped (_age returns None)
PatientsByAgeGroup(D, c, s, e, t) ==
    LET dob_rows == { <<p, a>> \in D.patients \X AppointmentFilter(D, c, s, e) :
                        a.patient_id = p.id }
    IN  [k \in 1..Len(AgeGroups) |->
            [age_group |-> AgeGroups[k],
             count |-> Cardinality({ r \in dob_rows :
                          AgeGroupOfRow(r[1].date_of_birth, t.day) = AgeGroups[k] })]]

AppointmentsByStatus(D, c, s, e) ==
    LET rows == AppointmentFilter(D, c, s, e)
    IN  { [status |-> g, count |-> Cardinality({ a \in rows : a.status = g })] :
            g \in { a.status : a \in rows } }

ConsultationsByDoctor(D, c, s, e) ==
    LET rows == { <<a, u>> \in AppointmentFilter(D, c, s, e) \X Users : u.id = a.doctor_id }
        groups == { <<p[2].first_name, p[2].last_name>> : p \in rows }
    IN  { [doctor_name |-> g[1] \o " " \o g[2],
           count |-> Cardinality({ p \in rows :
                        <<p[2].first_name, p[2].last_name>> = g })] : g \in groups }

ClinicalCompute(D, c, period, t) ==
    LET se == _period_to_dates(period, t)
    IN  Outcome("none", 200, "",
            [period |-> period,
             start_date |-> IsoFormat(se[1]),
             end_date |-> IsoFormat(se[2]),
             top_diagnoses |-> TopDiagnoses(D, c, se[1], se[2]),
             patients_by_age_group |-> PatientsByAgeGroup(D, c, se[1], se[2], t),
             appointments_by_status |-> AppointmentsByStatus(D, c, se[1], se[2]),
             consultations_by_doctor |-> ConsultationsByDoctor(D, c, se[1], se[2])],
            4, TRUE, TRUE)

get_clinical_analytics(clinic_id, period, D, got, t) ==
    IF got[1]
    THEN Outcome("none", 200, "", got[2], 0, TRUE, FALSE)
    ELSE ClinicalCompute(D, clinic_id, period, t)

-----------------------------------------------------------------------------
(* get_inventory_analytics *)

Weekdays == <<"Dom", "Seg", "Ter", "Qua", "Qui", "Sex", "Sab">>

\* extract('dow', t): 0 = Sunday
Dow(t) == t.day % 7

\* extract('epoch', a - b), whole seconds
EpochDiff(a, b) == (a.day - b.day) * SecondsPerDay + (a.sec - b.sec)

InventoryCompute(D, c, period, t) ==
    LET se == _period_to_dates(period, t)
        rows == AppointmentFilter(D, c, se[1], se[2])
        waited == { a \in rows : a.checked_in_at # NoInstant /\ a.started_at # NoInstant }
    IN  Outcome("none", 200, "",
            [period |-> period,
             start_date |-> IsoFormat(se[1]),
             end_date |-> IsoFormat(se[2]),
             utilization |->
                { [label |-> Weekdays[g + 1],
                   value |-> Cardinality({ a \in rows : Dow(a.scheduled_datetime) = g })] :
                  g \in { Dow(a.scheduled_datetime) : a \in rows } },
             avg_wait_time_minutes |->
                IF waited = {} THEN <<0, 1>>
                ELSE Ratio(SumFun([a \in waited |->
                                     EpochDiff(a.started_at, a.checked_in_at)], waited),
                           60 * Cardinality(waited)),
             no_shows |-> Cardinality({ a \in rows :
                             a.completed_at = NoInstant /\ a.cancelled_at = NoInstant }),
             stock_movements_by_type |-> {},
             top_products_by_movement |-> {},
             low_stock_products |-> {}],
            3, FALSE, FALSE)

get_inventory_analytics(clinic_id, period, D, t) == InventoryCompute(D, clinic_id, period, t)

-----------------------------------------------------------------------------
(* run_custom_report *)

\* SupportedDomains with one more domain let through
SupportedDomainsWide == {"appointments", "financial", "clinical", "shipping"}

SupportedDomains == {"appointments", "financial", "clinical"}

\* name in config.group_by
InList(name, group_by) == \E k \in 1..Len(group_by) : group_by[k] = name

CustomAppointments(D, c, s, e, group_by) ==
    LET by_status == InList("status", group_by)
        by_doctor == InList("doctor", group_by)
        base == AppointmentFilter(D, c, s, e)
        rows == IF by_doctor
                THEN { <<a, u>> \in base \X Users : u.id = a.doctor_id }
                ELSE { <<a, a>> : a \in base }
        Doc(p) == p[2].first_name \o " " \o p[2].last_name
    IN  IF by_status /\ by_doctor THEN
            [columns |-> <<"status", "doctor", "count">>,
             rows |-> { [status |-> g[1], doctor |-> g[2],
                         count |-> Cardinality({ p \in rows :
                                      <<p[1].status, Doc(p)>> = g })] :
                        g \in { <<p[1].status, Doc(p)>> : p \in rows } }]
        ELSE IF by_status THEN
            [columns |-> <<"status", "count">>,
             rows |-> { [status |-> g,
                         count |-> Cardinality({ p \in rows : p[1].status = g })] :
                        g \in { p[1].status : p \in rows } }]
        ELSE IF by_doctor THEN
            [columns |-> <<"doctor", "count">>,
             rows |-> { [doctor |-> g,
                         count |-> Cardinality({ p \in rows : Doc(p) = g })] :
                        g \in { Doc(p) : p \in rows } }]
        ELSE [columns |-> <<"count">>, rows |-> { [count |-> Cardinality(rows)] }]

\* CustomFinancial with the two tests in the other order: service wins
CustomFinancialServiceFirst(D, c, s, e, group_by) ==
    IF InList("service", group_by) THEN
        LET rows == ServiceRows(D, c, s, e)
        IN  [columns |-> <<"service", "sum_revenue">>,
             rows |-> { [service |-> g,
                         sum_revenue |->
                            LET grp == { p \in rows : p[3].name = g }
                            IN  SumFun([p \in grp |-> p[1].line_total], grp)] :
                        g \in { p[3].name : p \in rows } }]
    ELSE IF InList("doctor", group_by) THEN
        [columns |-> <<"doctor", "sum_revenue">>,
         rows |-> { [doctor |-> r.doctor_name, sum_revenue |-> r.total_revenue] :
                    r \in RevenueByDoctor(D, c, s, e) }]
    ELSE [columns |-> <<"sum_revenue">>,
          rows |-> { [sum_revenue |-> Totals(D, c, s, e)[2]] }]

CustomFinancial(D, c, s, e, group_by) ==
    IF InList("doctor", group_by) THEN
        [columns |-> <<"doctor", "sum_revenue">>,
         rows |-> { [doctor |-> r.doctor_name, sum_revenue |-> r.total_revenue] :
                    r \in RevenueByDoctor(D, c, s, e) }]
    ELSE IF InList("service", group_by) THEN
        LET rows == ServiceRows(D, c, s, e)
        IN  [columns |-> <<"service", "sum_revenue">>,
             rows |-> { [service |-> g,
                         sum_revenue |->
                            LET grp == { p \in rows : p[3].name = g }
                            IN  SumFun([p \in grp |-> p[1].line_total], grp)] :
                        g \in { p[3].name : p \in rows } }]
    ELSE [columns |-> <<"sum_revenue">>,
          rows |-> { [sum_revenue |-> Totals(D, c, s, e)[2]] }]

CustomClinical(D, c, s, e) ==
    LET rows == { <<d, a>> \in D.diagnoses \X AppointmentFilter(D, c, s, e) :
                    d.appointment_id = a.id }
    IN  [columns |-> <<"cid10", "count">>,
         rows |-> { [cid10 |-> g,
                     count |-> Cardinality({ p \in rows : p[1].cid_code = g })] :
                    g \in { p[1].cid_code : p \in rows } }]

\* config = [domain, period, group_by]
run_custom_report(clinic_id, config, D, t) ==
    LET se == _period_to_dates(config.period, t)
    IN  IF config.domain \notin SupportedDomains
        THEN Outcome("HTTPException", 400, "Unsupported domain", NoBody, 0, FALSE, FALSE)
        ELSE IF config.domain = "appointments"
        THEN Outcome("none", 200, "",
                 CustomAppointments(D, clinic_id, se[1], se[2], config.group_by),
                 1, FALSE, FALSE)
        ELSE IF config.domain = "financial"
        THEN Outcome("none", 200, "",
                 CustomFinancial(D, clinic_id, se[1], se[2], config.group_by),
                 1, FALSE, FALSE)
        ELSE Outcome("none", 200, "",
                 CustomClinical(D, clinic_id, se[1], se[2]), 1, FALSE, FALSE)

-----------------------------------------------------------------------------
(* Requests and the environment *)

NowBase == At(2024, 3, 15, 43200)

TickSteps == {100}

NoRequest == [kind |-> "none"]

\* no request in progress
NoFlight == <<>>

NoEntry == [at |-> NoInstant, status |-> 0, body |-> NoBody]

\* computed, called: the last response computed / returned per key; degraded: the
\* keys whose cached response was computed with a statement of IsolatedQueries failed
NoHist == [computed |-> {}, called |-> {}, degraded |-> {}]

\* the entry of a history (a set of [key, at, status, body]) for a key, NoEntry if none
EntryOf(h, key) ==
    IF \E x \in h : x.key = key
    THEN LET x == CHOOSE x \in h : x.key = key
         IN  [at |-> x.at, status |-> x.status, body |-> x.body]
    ELSE NoEntry

PutEntry(h, key, t, status, body) ==
    { x \in h : x.key # key }
    \cup { [key |-> key, at |-> t, status |-> status, body |-> body] }

\* SessionCalls with one row added to the session and committed at the end
SessionCallsWithInsert(n, failed) ==
    [k \in 1..n |-> [call |-> "execute"]]
    \o << [call |-> "add",
           rows |-> [EmptyDb EXCEPT !.diagnoses =
                        { [id |-> 9, appointment_id |-> 1, cid_code |-> "Z00",
                           description |-> "Exame geral"] }]],
          [call |-> "commit"] >>

\* the calls a handler makes on its AsyncSession when it runs n statements of
\* which those in `failed` raise: one execute of a SELECT per statement, and a
\* rollback after a failed statement that has a try block of its own
RECURSIVE SessionCalls(_, _)
SessionCalls(n, failed) ==
    IF n = 0 THEN << >>
    ELSE SessionCalls(n - 1, failed)
         \o << [call |-> "execute"] >>
         \o (IF n <= Len(FinancialQueries)
                /\ FinancialQueries[n] \in failed \cap IsolatedQueries
             THEN << [call |-> "rollback"] >>
             ELSE << >>)

\* the store after a session that made the calls and was closed: rows added are
\* pending until a commit; a rollback and the close discard what is pending; the
\* execute of a SELECT changes nothing
RECURSIVE Persist(_, _, _)
Persist(D, pending, calls) ==
    IF calls = << >> THEN D
    ELSE LET c == Head(calls)
         IN  CASE c.call = "add" ->
                    Persist(D, [tb \in DOMAIN D |-> pending[tb] \cup c.rows[tb]],
                            Tail(calls))
               [] c.call = "commit" ->
                    Persist([tb \in DOMAIN D |-> D[tb] \cup pending[tb]], EmptyDb,
                            Tail(calls))
               [] c.call = "rollback" -> Persist(D, EmptyDb, Tail(calls))
               [] OTHER -> Persist(D, pending, Tail(calls))

\* Serve with a response that lacks the result of a failed statement kept out of
\* the cache
ServeOnlyComplete(kind, clinic_id, config, failed, key, r) ==
    /\ served < MaxServed
    /\ served' = served + 1
    /\ db' = Persist(db, EmptyDb, SessionCalls(r.queries, failed))
    /\ cache' = IF r.cache_set /\ failed \cap IsolatedQueries = {} THEN CacheSet(cache, key, r.body, TTL, now) ELSE cache
    /\ hist' = [computed |-> IF r.cache_set
                             THEN PutEntry(hist.computed, key, now, r.status, r.body)
                             ELSE hist.computed,
                called |-> PutEntry(hist.called, key, now, r.status, r.body),
                degraded |-> IF ~r.cache_set THEN hist.degraded
                             ELSE IF failed \cap IsolatedQueries # {}
                             THEN hist.degraded \cup {key}
                             ELSE hist.degraded \ {key}]
    /\ last' = [kind |-> kind, clinic_id |-> clinic_id, config |-> config,
                failed |-> failed, at |-> now,
                prev |-> EntryOf(hist.computed, key),
                prevcall |-> EntryOf(hist.called, key),
                prevdegraded |-> key \in hist.degraded,
                raised |-> r.raised, status |-> r.status, detail |-> r.detail,
                body |-> r.body, queries |-> r.queries,
                cache_get |-> r.cache_get, cache_set |-> r.cache_set]

\* what a request leaves behind: the store after its session, the cache after a
\* set, the record of the request
Serve(kind, clinic_id, config, failed, key, r) ==
    /\ served < MaxServed
    /\ served' = served + 1
    /\ db' = Persist(db, EmptyDb, SessionCalls(r.queries, failed))
    /\ cache' = IF r.cache_set THEN CacheSet(cache, key, r.body, TTL, now) ELSE cache
    /\ hist' = [computed |-> IF r.cache_set
                             THEN PutEntry(hist.computed, key, now, r.status, r.body)
                             ELSE hist.computed,
                called |-> PutEntry(hist.called, key, now, r.status, r.body),
                degraded |-> IF ~r.cache_set THEN hist.degraded
                             ELSE IF failed \cap IsolatedQueries # {}
                             THEN hist.degraded \cup {key}
                             ELSE hist.degraded \ {key}]
    /\ last' = [kind |-> kind, clinic_id |-> clinic_id, config |-> config,
                failed |-> failed, at |-> now,
                prev |-> EntryOf(hist.computed, key),
                prevcall |-> EntryOf(hist.called, key),
                prevdegraded |-> key \in hist.degraded,
                raised |-> r.raised, status |-> r.status, detail |-> r.detail,
                body |-> r.body, queries |-> r.queries,
                cache_get |-> r.cache_get, cache_set |-> r.cache_set]

Config(domain, period, group_by) ==
    [domain |-> domain, period |-> period, group_by |-> group_by]

FinancialRequest(callers, periods, faultsets) ==
    \E u \in callers, p \in periods, f \in faultsets, strict \in BOOLEAN :
        LET key == CacheKey("financial", u, p)
            r == get_financial_analytics(u, p, db, CacheGet(cache, key, now, strict), now, f)
        IN  /\ Serve("financial", u, Config("financial", p, <<>>), f, key, r)
            /\ UNCHANGED <<now, ticks, run2, flight>>

ClinicalRequest(callers, periods) ==
    \E u \in callers, p \in periods, strict \in BOOLEAN :
        LET key == CacheKey("clinical", u, p)
            r == get_clinical_analytics(u, p, db, CacheGet(cache, key, now, strict), now)
        IN  /\ Serve("clinical", u, Config("clinical", p, <<>>), {}, key, r)
            /\ UNCHANGED <<now, ticks, run2, flight>>

CustomRequest(callers, configs) ==
    \E u \in callers, cfg \in configs :
        /\ Serve("custom", u, cfg, {}, CacheKey("custom", u, cfg.period),
                 run_custom_report(u, cfg, db, now))
        /\ UNCHANGED <<now, ticks, run2, flight>>

\* the clock advances
Tick ==
    /\ ticks < MaxTicks
    /\ \E d \in TickSteps : now' = AddSeconds(now, d)
    /\ ticks' = ticks + 1
    /\ last' = NoRequest
    /\ UNCHANGED <<db, cache, hist, served, run2, flight>>

Invoice(id, clinic_id, status, total_amount, issue_date, due_date, appointment_id) ==
    [id |-> id, clinic_id |-> clinic_id, status |-> status,
     total_amount |-> total_amount, issue_date |-> issue_date,
     due_date |-> due_date, appointment_id |-> appointment_id]

Appointment(id, clinic_id, doctor_id, patient_id, scheduled_datetime, status) ==
    [id |-> id, clinic_id |-> clinic_id, doctor_id |-> doctor_id,
     patient_id |-> patient_id, scheduled_datetime |-> scheduled_datetime,
     status |-> status, checked_in_at |-> NoInstant, started_at |-> NoInstant,
     completed_at |-> NoInstant, cancelled_at |-> NoInstant]

\* the invoice CRUD collaborator creates an invoice
AddInvoice(samples) ==
    \E i \in samples :
        /\ Cardinality(db.invoices) < MaxInvoices
        /\ db' = [db EXCEPT !.invoices =
                    @ \cup { [i EXCEPT !.id = Cardinality(db.invoices) + 1] }]
        /\ last' = NoRequest
        /\ UNCHANGED <<cache, now, ticks, hist, served, run2, flight>>

-----------------------------------------------------------------------------
(* Spec: the two cached endpoints over a changing store and a running clock *)

BaseAppointments ==
    { Appointment(1, 1, 1, 1, AddDays(NowBase, -2), "completed"),
      Appointment(2, 2, 2, 2, AddDays(NowBase, -3), "scheduled") }

CacheInvoiceSamples ==
    { Invoice(0, c, "ISSUED", 10000, AddDays(NowBase, -1), AddDays(NowBase, -31), c) :
        c \in {1} }

CacheFaults == { {}, {"total"}, {"aging"}, {"cpp"} }

Init ==
    /\ db = [EmptyDb EXCEPT !.appointments = BaseAppointments]
    /\ cache = {}
    /\ now = NowBase
    /\ ticks = 0
    /\ last = NoRequest
    /\ hist = NoHist
    /\ served = 0
    /\ run2 = NoRequest
    /\ flight = NoFlight

Next ==
    \/ FinancialRequest({0, 1}, {"last_30_days"}, CacheFaults)
    \/ ClinicalRequest({1}, {"last_30_days"})
    \/ AddInvoice(CacheInvoiceSamples)
    \/ Tick

Spec == Init /\ [][Next]_vars

-----------------------------------------------------------------------------
(* Properties of the cached endpoints *)

Cached(r) == r.kind \in {"financial", "clinical"}

\* what the handler of the last request computes from the store as it is now
Fresh(r) ==
    IF r.kind = "financial"
    THEN FinancialCompute(db, r.clinic_id, r.config.period, r.at, r.failed)
    ELSE ClinicalCompute(db, r.clinic_id, r.config.period, r.at)

\* C1 as stated: two successful calls with the same (domain, clinic, period) made
\* less than 300 seconds apart return the identical response, and the second one
\* executes no aggregation query.
C1_AnyTwoCallsWithinTtl ==
    ( /\ Cached(last)
      /\ last.status = 200
      /\ last.prevcall.status = 200
      /\ Lt(last.at, AddSeconds(last.prevcall.at, TTL)) )
    => (last.body = last.prevcall.body /\ last.queries = 0)

\* C1 amended: a call made less than 300 seconds after the call that computed and
\* cached the response for its (domain, clinic, period) returns that identical
\* response and executes no aggregation query; a call made when no response was
\* cached for the key, or more than 300 seconds after it was, executes the
\* aggregation queries against the store and, unless it fails as a whole, returns
\* what they give now and caches it for 300 seconds.
C1_CacheWindow ==
    (Cached(last) /\ (last.kind = "financial" => last.clinic_id # 0)) =>
        /\ ( /\ last.prev # NoEntry
             /\ Lt(last.at, AddSeconds(last.prev.at, TTL)) )
           => ( /\ last.status = 200
                /\ last.body = last.prev.body
                /\ last.queries = 0
                /\ ~last.cache_set )
        /\ ( \/ last.prev = NoEntry
             \/ Lt(AddSeconds(last.prev.at, TTL), last.at) )
           => ( /\ last.queries > 0
                /\ last.status = 200 =>
                    /\ last.body = Fresh(last).body
                    /\ \E x \in cache :
                          /\ x.key = CacheKey(last.kind, last.clinic_id, last.config.period)
                          /\ x.value = last.body
                          /\ x.expires = AddSeconds(last.at, TTL) )

\* C1 witness: a call inside the window is answered from the cache although the
\* store has changed since, and the clock has moved
C1_StaleHit ==
    /\ last.kind = "financial"
    /\ last.status = 200
    /\ last.queries = 0
    /\ last.prev.at # last.at
    /\ last.body = last.prev.body
    /\ last.body.total_revenue #
          FinancialCompute(db, last.clinic_id, last.config.period, last.at, {}).body.total_revenue

\* C3 as stated: a caller without a clinic is turned away by get_financial_analytics
\* before any query or cache access, with the client error 400 "User is not
\* associated with a clinic".
C3_NoClinicIsClientError ==
    (last.kind = "financial" /\ last.clinic_id = 0) =>
        /\ last.queries = 0
        /\ ~last.cache_get
        /\ ~last.cache_set
        /\ last.status = 400
        /\ last.detail = "User is not associated with a clinic"

\* C3 witness: a caller without a clinic has called get_financial_analytics
C3_NoClinicCalled ==
    last.kind = "financial" /\ last.clinic_id = 0

\* the last request is a financial request that executed statements of which one
\* of IsolatedQueries failed, and none of the others
Degraded(r) ==
    /\ r.kind = "financial"
    /\ r.queries > 0
    /\ r.status = 200
    /\ r.failed \cap IsolatedQueries # {}

\* C29: what gets cached on failure.  A financial request that fails as a whole
\* (4xx or 5xx) leaves the result cache unchanged.  A request whose AR-aging or
\* cost-per-procedure statement failed stores its degraded response (zero buckets /
\* empty list) in the cache for 300 seconds, and every request for the same
\* (clinic, period) made less than 300 seconds later receives that degraded
\* response without executing a statement, whatever the store would give now.
C29_DegradedResponseIsCached ==
    /\ [][ ( /\ served' = served + 1
             /\ last'.kind = "financial"
             /\ last'.status >= 400 ) => cache' = cache ]_vars
    /\ [] ( Degraded(last) =>
              /\ "aging" \in last.failed => last.body.ar_aging = ZeroBuckets
              /\ "cpp" \in last.failed => last.body.cost_per_procedure = {}
              /\ last.cache_set
              /\ \E x \in cache :
                    /\ x.key = CacheKey("financial", last.clinic_id, last.config.period)
                    /\ x.value = last.body
                    /\ x.expires = AddSeconds(last.at, TTL) )
    /\ [] ( ( /\ last.kind = "financial"
              /\ last.clinic_id # 0
              /\ last.prevdegraded
              /\ Lt(last.at, AddSeconds(last.prev.at, TTL)) )
            => /\ last.status = 200
               /\ last.queries = 0
               /\ last.body = last.prev.body )

\* C29 witness: the AR-aging statement failed for one request, the clock moved, and
\* a later request for which no statement would fail is answered with the zero
\* buckets from the cache although the store holds an overdue unpaid invoice
C29_DegradedHitAfterRecovery ==
    /\ last.kind = "financial"
    /\ last.failed = {}
    /\ last.prevdegraded
    /\ last.prev.at # last.at
    /\ last.queries = 0
    /\ last.body.ar_aging = ZeroBuckets
    /\ FinancialCompute(db, last.clinic_id, last.config.period, last.prev.at, {}).body.ar_aging
          # ZeroBuckets
    /\ Fresh(last).body.ar_aging # ZeroBuckets

\* C29 witness of the first part: a request failed as a whole while a response was
\* cached for its key
C29_FailedWhileCached ==
    /\ last.kind = "financial"
    /\ last.status >= 400
    /\ \E x \in cache : x.key = CacheKey("financial", last.clinic_id, last.config.period)

-----------------------------------------------------------------------------
(* SpecAging: get_financial_analytics over stores that exercise the AR aging *)

Payment(id, invoice_id, status, amount) ==
    [id |-> id, invoice_id |-> invoice_id, status |-> status, amount |-> amount]

\* due dates around every threshold of the buckets, relative to the clock
AgingDues ==
    { NoInstant,
      AddSeconds(NowBase, 1), NowBase, AddSeconds(NowBase, -1),
      AddDays(NowBase, -30), AddSeconds(AddDays(NowBase, -31), 1),
      AddDays(NowBase, -31), [day |-> NowBase.day - 31, sec |-> 0, us |-> 0],
      AddDays(NowBase, -60), AddDays(NowBase, -61),
      AddDays(NowBase, -90), AddDays(NowBase, -91) }

\* the invoice under study: id 1, total 100.00
AgingProbes ==
    { Invoice(1, 1, st, 10000, iss, due, 0) :
        st \in {"ISSUED", "CANCELLED"},
        iss \in {AddDays(NowBase, -10), AddDays(NowBase, 1)},
        due \in AgingDues }

\* other invoices of the store: ids 2, 3, ...
AgingCompanions ==
    { Invoice(k, IF k % 2 = 0 THEN 1 ELSE 2, "ISSUED", 2500 * k,
              AddDays(NowBase, -40), AddDays(NowBase, -31), 0) : k \in 2..MaxInvoices }

\* payments of the invoice under study
AgingPayments ==
    { Payment(k, 1, st, am) :
        k \in 1..MaxPayments, st \in {"COMPLETED", "PENDING"}, am \in {4000, 6000} }

UniqueIds(rows) == \A x, y \in rows : x.id = y.id => x = y

InitAging ==
    /\ \E probe \in AgingProbes, others \in SUBSET AgingCompanions,
          pays \in SUBSET AgingPayments :
          /\ UniqueIds(pays)
          /\ db = [EmptyDb EXCEPT !.invoices = {probe} \cup others, !.payments = pays]
    /\ cache = {}
    /\ now = NowBase
    /\ ticks = 0
    /\ last = NoRequest
    /\ hist = NoHist
    /\ served = 0
    /\ run2 = NoRequest
    /\ flight = NoFlight

\* one request per behaviour: the handler applied to the store drawn by Init
NextAging ==
    /\ served = 0
    /\ FinancialRequest({1}, {"last_30_days"}, {{}})

SpecAging == InitAging /\ [][NextAging]_vars

\* the last request computed a financial response from the store
Computed(r) == r.kind = "financial" /\ r.status = 200 /\ r.queries > 0

\* the AR aging the handler computes now for the caller of r with invoice i removed
AgingWithout(r, i) ==
    FinancialCompute([db EXCEPT !.invoices = @ \ {i}],
                     r.clinic_id, r.config.period, r.at, r.failed).body.ar_aging

\* unpaid amount as the claims define it: total minus the COMPLETED payments
ClaimUnpaid(i) ==
    LET ps == { p \in db.payments : p.invoice_id = i.id /\ p.status = "COMPLETED" }
    IN  i.total_amount - SumFun([p \in ps |-> p.amount], ps)

\* the invoices the aging is about: of the clinic, not cancelled, issued by the end
AgingScope(r) ==
    { i \in db.invoices :
        /\ i.clinic_id = r.clinic_id
        /\ i.status # "CANCELLED"
        /\ Leq(i.issue_date, _period_to_dates(r.config.period, r.at)[2]) }

\* the bucket C6 names for a due date: d = whole days overdue
ClaimBucket(due, t) ==
    IF ~Lt(due, t) THEN "current"
    ELSE LET d == CHOOSE d \in 0..(t.day - due.day) :
                     /\ Leq(AddDays(due, d), t)
                     /\ Lt(t, AddDays(due, d + 1))
         IN  IF d <= 30 THEN "1-30"
             ELSE IF 31 <= d /\ d <= 60 THEN "31-60"
             ELSE IF 61 <= d /\ d <= 90 THEN "61-90"
             ELSE ">90"

\* C6: every non-cancelled invoice of the clinic issued on or before the interval
\* end, with unpaid > 0 and a due date, adds its full unpaid amount to exactly one
\* bucket of ar_aging: current if due >= now, else by whole days overdue d: 1-30 if
\* d <= 30, 31-60 if 31 <= d <= 60, 61-90 if 61 <= d <= 90, >90 if d > 90.
C6_OneBucketPerInvoice ==
    Computed(last) =>
        \A i \in AgingScope(last) :
            (ClaimUnpaid(i) > 0 /\ i.due_date # NoInstant) =>
                \A b \in BucketNames :
                    last.body.ar_aging[b] - AgingWithout(last, i)[b]
                      = IF b = ClaimBucket(i.due_date, last.at) THEN ClaimUnpaid(i) ELSE 0

\* C6 witness: the invoice of total 100.00 with no payment, due 31 days before now,
\* is alone in the scope and ar_aging holds 100.00 in 31-60 and nothing elsewhere
C6_Due31DaysAgo ==
    /\ Computed(last)
    /\ db.payments = {}
    /\ \E i \in AgingScope(last) :
          /\ AgingScope(last) = {i}
          /\ i.total_amount = 10000
          /\ i.due_date = AddDays(last.at, -31)
    /\ last.body.ar_aging = [ZeroBuckets EXCEPT !["31-60"] = 10000]

\* C7: only COMPLETED payments count as paid (a payment of another status changes
\* nothing in ar_aging); an invoice whose unpaid amount, total minus its COMPLETED
\* payments, is <= 0 adds to no bucket; one with unpaid > 0 and no due date adds
\* its unpaid amount to current.
C7_UnpaidAmount ==
    Computed(last) =>
        /\ last.body.ar_aging =
              FinancialCompute(
                  [db EXCEPT !.payments = { p \in @ : p.status = "COMPLETED" }],
                  last.clinic_id, last.config.period, last.at, last.failed).body.ar_aging
        /\ \A i \in AgingScope(last) :
              /\ ClaimUnpaid(i) <= 0 => last.body.ar_aging = AgingWithout(last, i)
              /\ (ClaimUnpaid(i) > 0 /\ i.due_date = NoInstant) =>
                    last.body.ar_aging =
                        [AgingWithout(last, i) EXCEPT !["current"] = @ + ClaimUnpaid(i)]

\* C7 witness: an invoice without due date, part paid by a COMPLETED payment and
\* with a PENDING payment beside it, is aged in current by its unpaid amount
C7_PartPaidNoDue ==
    /\ Computed(last)
    /\ \E i \in AgingScope(last) :
          /\ i.due_date = NoInstant
          /\ \E p, q \in db.payments :
                /\ p.invoice_id = i.id /\ p.status = "COMPLETED"
                /\ q.invoice_id = i.id /\ q.status = "PENDING"
          /\ ClaimUnpaid(i) > 0
          /\ ClaimUnpaid(i) < i.total_amount
          /\ last.body.ar_aging["current"] >= ClaimUnpaid(i)

\* the invoices of the scope with a positive unpaid balance
Receivables(r) == { i \in AgingScope(r) : ClaimUnpaid(i) > 0 }

\* C28: AR aging conserves amounts: when the aging statement succeeds, the five
\* buckets add up to the sum of the positive unpaid balances of the non-cancelled
\* invoices of the clinic issued on or before the interval end; each such invoice
\* is counted in exactly one bucket, and no bucket is negative.
C28_AgingConservesAmounts ==
    (Computed(last) /\ "aging" \notin last.failed) =>
        /\ DOMAIN last.body.ar_aging = {"current", "1-30", "31-60", "61-90", ">90"}
        /\ last.body.ar_aging["current"] + last.body.ar_aging["1-30"]
             + last.body.ar_aging["31-60"] + last.body.ar_aging["61-90"]
             + last.body.ar_aging[">90"]
           = SumFun([i \in Receivables(last) |-> ClaimUnpaid(i)], Receivables(last))
        /\ \A b \in DOMAIN last.body.ar_aging : last.body.ar_aging[b] >= 0
        /\ \A i \in Receivables(last) :
              Cardinality({ b \in BucketNames :
                  last.body.ar_aging[b] # AgingWithout(last, i)[b] }) = 1

\* C28 witness: a part-paid invoice more than 90 days overdue that also has a
\* pending payment, and another invoice of the clinic 31 days overdue; two buckets
\* hold the two balances
C28_TwoReceivablesTwoBuckets ==
    /\ Computed(last)
    /\ Cardinality(Receivables(last)) = 2
    /\ \E p \in db.payments : p.status = "PENDING"
    /\ last.body.ar_aging[">90"] = 6000
    /\ last.body.ar_aging["31-60"] > 0
    /\ last.body.ar_aging["current"] = 0

-----------------------------------------------------------------------------
(* SpecRevenue: get_financial_analytics and the financial custom report over   *)
(* stores with cancelled invoices, with statements that fail                   *)

Line(id, invoice_id, service_item_id, line_total, quantity) ==
    [id |-> id, invoice_id |-> invoice_id, service_item_id |-> service_item_id,
     line_total |-> line_total, quantity |-> quantity]

RevenueInvoices ==
    { Invoice(1, 1, "ISSUED", 10000, AddDays(NowBase, -10), AddDays(NowBase, -31), 1),
      Invoice(2, 1, "CANCELLED", 7000, AddDays(NowBase, -10), AddDays(NowBase, -40), 1),
      Invoice(3, 1, "ISSUED", 5000, AddDays(NowBase, -40), NoInstant, 0),
      Invoice(4, 2, "ISSUED", 3000, AddDays(NowBase, -10), AddDays(NowBase, -5), 2),
      Invoice(5, 1, "CANCELLED", 2000, AddDays(NowBase, -40), AddDays(NowBase, -100), 0) }

RevenueLines ==
    { Line(1, 1, 1, 6000, 2), Line(2, 2, 1, 7000, 1),
      Line(3, 1, 2, 4000, 0), Line(4, 5, 2, 2000, 1) }

RevenuePayments ==
    { Payment(1, 1, "COMPLETED", 4000), Payment(2, 2, "COMPLETED", 7000) }

\* every line and payment of the store belongs to an invoice of the store
References(D) ==
    /\ \A l \in D.lines : \E i \in D.invoices : i.id = l.invoice_id
    /\ \A p \in D.payments : \E i \in D.invoices : i.id = p.invoice_id

FaultSets ==
    { f \in SUBSET { FinancialQueries[k] : k \in 1..Len(FinancialQueries) } :
        Cardinality(f) <= MaxFaults }

InitRevenue ==
    /\ \E invs \in SUBSET RevenueInvoices, ls \in SUBSET RevenueLines,
          pays \in SUBSET RevenuePayments :
          /\ invs # {}
          /\ Cardinality(invs) <= MaxInvoices
          /\ Cardinality(ls) <= MaxLines
          /\ Cardinality(pays) <= MaxPayments
          /\ db = [EmptyDb EXCEPT !.invoices = invs, !.lines = ls, !.payments = pays,
                                  !.appointments = BaseAppointments]
          /\ References(db)
    /\ cache = {}
    /\ now = NowBase
    /\ ticks = 0
    /\ last = NoRequest
    /\ hist = NoHist
    /\ served = 0
    /\ run2 = NoRequest
    /\ flight = NoFlight

RevenueConfigs ==
    { Config("financial", p, g) :
        p \in {"last_30_days", "last_month"},
        g \in {<<>>, <<"doctor">>, <<"service">>} }

\* one request per behaviour: a handler applied to the store drawn by Init
NextRevenue ==
    /\ served = 0
    /\ \/ FinancialRequest({1}, {"last_30_days", "last_month"}, FaultSets)
       \/ CustomRequest({1}, RevenueConfigs)

SpecRevenue == InitRevenue /\ [][NextRevenue]_vars

StripCancelled(D) == [D EXCEPT !.invoices = { i \in @ : i.status # "CANCELLED" }]

\* C4: cancelled invoices are excluded from every revenue computation: the
\* financial response (revenue_by_doctor, revenue_by_service, monthly_revenue_trend,
\* total_revenue, total_invoices, average_invoice_value, ar_aging,
\* cost_per_procedure) and the rows of the financial custom report are what they
\* are over the store with its CANCELLED invoices removed, so adding, removing or
\* changing the amount of a CANCELLED invoice changes none of them.
C4_CancelledExcluded ==
    /\ Computed(last) =>
          last.body = FinancialCompute(StripCancelled(db), last.clinic_id,
                          last.config.period, last.at, last.failed).body
    /\ (last.kind = "custom" /\ last.config.domain = "financial") =>
          last.body = run_custom_report(last.clinic_id, last.config,
                          StripCancelled(db), last.at).body

\* C4 witness: a response computed over a store that holds a CANCELLED invoice of
\* the clinic inside the interval, with an amount, a doctor and an invoice line
C4_CancelledInInterval ==
    /\ Computed(last)
    /\ last.failed = {}
    /\ last.body.total_revenue > 0
    /\ \E i \in db.invoices :
          /\ i.clinic_id = last.clinic_id
          /\ i.status = "CANCELLED"
          /\ i.total_amount > 0
          /\ i \in RevenueFilterAnyStatus(db, last.clinic_id,
                      _period_to_dates(last.config.period, last.at)[1],
                      _period_to_dates(last.config.period, last.at)[2])
          /\ DoctorsOf(db, i) # {}
          /\ \E l \in db.lines : l.invoice_id = i.id

\* the financial response with the sub-metrics of the failed statements at their
\* empty or zero default
WithDefaults(body, failed) ==
    [body EXCEPT
        !.revenue_by_doctor = IF "rev_doctor" \in failed THEN {} ELSE @,
        !.revenue_by_service = IF "rev_service" \in failed THEN {} ELSE @,
        !.monthly_revenue_trend = IF "month" \in failed THEN {} ELSE @,
        !.total_revenue = IF "total" \in failed THEN 0 ELSE @,
        !.total_invoices = IF "total" \in failed THEN 0 ELSE @,
        !.average_invoice_value = IF "total" \in failed THEN 0 ELSE @,
        !.ar_aging = IF "aging" \in failed THEN ZeroBuckets ELSE @,
        !.cost_per_procedure = IF "cpp" \in failed THEN {} ELSE @]

\* what the last request returns when no statement fails
NormalBody(r) ==
    FinancialCompute(db, r.clinic_id, r.config.period, r.at, {}).body

\* the last request is a financial one that missed the cache
Missed(r) == r.kind = "financial" /\ r.clinic_id # 0 /\ r.queries > 0

IntervalOf(r) == _period_to_dates(r.config.period, r.at)

\* C21: when the AR-aging statement or the cost-per-procedure statement fails (and
\* no other does), get_financial_analytics still answers 200: ar_aging has the five
\* buckets, all 0.0, if the aging statement failed; cost_per_procedure is the empty
\* list if its statement failed; and revenue_by_doctor, revenue_by_service,
\* monthly_revenue_trend, total_revenue, total_invoices and average_invoice_value
\* are the values their statements gave before the failure.
C21_OptionalFailureKeepsRevenue ==
    (Missed(last) /\ last.failed # {} /\ last.failed \subseteq {"aging", "cpp"}) =>
        /\ last.status = 200
        /\ last.raised = "none"
        /\ "aging" \in last.failed =>
              /\ DOMAIN last.body.ar_aging = {"current", "1-30", "31-60", "61-90", ">90"}
              /\ \A b \in DOMAIN last.body.ar_aging : last.body.ar_aging[b] = 0
        /\ "cpp" \in last.failed => last.body.cost_per_procedure = {}
        /\ last.body.revenue_by_doctor =
              RevenueByDoctor(db, last.clinic_id, IntervalOf(last)[1], IntervalOf(last)[2])
        /\ last.body.revenue_by_service =
              RevenueByService(db, last.clinic_id, IntervalOf(last)[1], IntervalOf(last)[2])
        /\ last.body.monthly_revenue_trend =
              MonthlyRevenueTrend(db, last.clinic_id, IntervalOf(last)[1],
                                  IntervalOf(last)[2])
        /\ last.body.total_invoices =
              Totals(db, last.clinic_id, IntervalOf(last)[1], IntervalOf(last)[2])[1]
        /\ last.body.total_revenue =
              Totals(db, last.clinic_id, IntervalOf(last)[1], IntervalOf(last)[2])[2]
        /\ last.body.average_invoice_value =
              AverageInvoiceValue(last.body.total_invoices, last.body.total_revenue)

\* C21 witness: the cost-per-procedure statement failed over a store with invoice
\* lines, revenue and receivables; the response lists no cost and keeps the rest
C21_CostPerProcedureFailed ==
    /\ Missed(last)
    /\ last.failed = {"cpp"}
    /\ last.status = 200
    /\ NormalBody(last).cost_per_procedure # {}
    /\ last.body.cost_per_procedure = {}
    /\ last.body.revenue_by_service # {}
    /\ last.body.total_invoices > 0
    /\ last.body.ar_aging # ZeroBuckets

\* the statements outside the two try blocks of their own
RequiredQueries == {"rev_doctor", "rev_service", "month", "total"}

\* C22: when the statement of revenue by doctor, revenue by service, the monthly
\* trend or the totals fails, get_financial_analytics fails as a whole: it raises
\* an HTTPException with a 5xx status and returns no response, not even the parts
\* computed before the failure.
C22_RequiredFailureFailsRequest ==
    (Missed(last) /\ last.failed \cap RequiredQueries # {}) =>
        /\ last.raised = "HTTPException"
        /\ last.status >= 500 /\ last.status <= 599
        /\ last.body = NoBody
        /\ last.queries <= 4

\* C22 witness: the totals statement failed after the three revenue statements had
\* given rows
C22_TotalsFailedAfterRevenue ==
    /\ Missed(last)
    /\ last.failed = {"total"}
    /\ last.status = 500
    /\ last.queries = 4
    /\ NormalBody(last).revenue_by_doctor # {}
    /\ NormalBody(last).revenue_by_service # {}
    /\ NormalBody(last).monthly_revenue_trend # {}

-----------------------------------------------------------------------------
(* SpecCustom: run_custom_report over every domain and group_by selection *)

Diagnosis(id, appointment_id, cid_code, description) ==
    [id |-> id, appointment_id |-> appointment_id, cid_code |-> cid_code,
     description |-> description]

ReportAppointments ==
    BaseAppointments
    \cup { Appointment(3, 1, 1, 1, AddDays(NowBase, -5), "scheduled"),
           Appointment(4, 1, 0, 1, AddDays(NowBase, -6), "completed") }

ReportInvoices == { i \in RevenueInvoices : i.id \in {1, 2, 4} }

ReportLines == { l \in RevenueLines : l.id \in {1, 3} }

ReportDiagnoses ==
    { Diagnosis(1, 1, "J00", "Resfriado"), Diagnosis(2, 3, "I10", "Hipertensao") }

InitCustom ==
    /\ \E as \in SUBSET ReportAppointments, invs \in SUBSET ReportInvoices,
          ls \in SUBSET ReportLines, ds \in SUBSET ReportDiagnoses :
          /\ Cardinality(as) <= MaxAppointments
          /\ Cardinality(invs) <= MaxInvoices
          /\ Cardinality(ls) <= MaxLines
          /\ Cardinality(ds) <= MaxDiagnoses
          /\ db = [EmptyDb EXCEPT !.appointments = as, !.invoices = invs,
                                  !.lines = ls, !.diagnoses = ds]
          /\ References(db)
          /\ \A d \in ds : \E a \in as : a.id = d.appointment_id
    /\ cache = {}
    /\ now = NowBase
    /\ ticks = 0
    /\ last = NoRequest
    /\ hist = NoHist
    /\ served = 0
    /\ run2 = NoRequest
    /\ flight = NoFlight

GroupBys ==
    { <<>>, <<"status">>, <<"doctor">>, <<"service">>, <<"cid10">>, <<"month">>,
      <<"status", "doctor">>, <<"doctor", "service">>, <<"service", "doctor">> }

ReportConfigs ==
    { Config(d, "last_30_days", g) :
        d \in SupportedDomains \cup {"shipping", "inventory"}, g \in GroupBys }

\* one request per behaviour: the handler applied to the store drawn by Init
NextCustom ==
    /\ served = 0
    /\ CustomRequest({1}, ReportConfigs)

SpecCustom == InitCustom /\ [][NextCustom]_vars

\* the group_by vocabulary the specification enumerates for a domain
Vocabulary(domain) ==
    IF domain = "appointments" THEN {"status", "doctor"}
    ELSE IF domain = "financial" THEN {"doctor", "service"}
    ELSE IF domain = "clinical" THEN {"cid10"}
    ELSE {}

InVocabulary(config) ==
    /\ config.domain \in {"appointments", "financial", "clinical"}
    /\ \A k \in 1..Len(config.group_by) : config.group_by[k] \in Vocabulary(config.domain)

\* C8 as stated: run_custom_report rejects, as a client error and without
\* executing a query, every request whose domain/group_by combination is outside
\* the enumerated vocabulary, a supported domain with a foreign group_by included.
C8_OutsideVocabularyRejected ==
    (last.kind = "custom" /\ ~InVocabulary(last.config)) =>
        /\ last.status = 400
        /\ last.queries = 0

\* C8 witness: a supported domain was asked with a group_by foreign to it
C8_ForeignGroupBy ==
    /\ last.kind = "custom"
    /\ last.config.domain = "appointments"
    /\ last.config.group_by = <<"service">>

\* C9: a custom report request whose domain is none of appointments, financial,
\* clinical is rejected with the client error 400, and no query has been executed
\* when it is rejected.
C9_UnsupportedDomainRejected ==
    (last.kind = "custom"
        /\ last.config.domain \notin {"appointments", "financial", "clinical"}) =>
        /\ last.raised = "HTTPException"
        /\ last.status = 400
        /\ last.detail = "Unsupported domain"
        /\ last.queries = 0
        /\ last.body = NoBody

\* C9 witness: domain "shipping" was asked over a store that has rows to report
C9_ShippingAsked ==
    /\ last.kind = "custom"
    /\ last.config.domain = "shipping"
    /\ db.appointments # {}
    /\ db.diagnoses # {}

\* C10: for domain financial, a group_by holding both doctor and service gives
\* exactly the columns and rows of the same request with group_by = [doctor]: the
\* single dimension doctor plus sum_revenue.
C10_DoctorWins ==
    ( /\ last.kind = "custom"
      /\ last.config.domain = "financial"
      /\ InList("doctor", last.config.group_by)
      /\ InList("service", last.config.group_by) ) =>
        /\ last.status = 200
        /\ last.body.columns = <<"doctor", "sum_revenue">>
        /\ last.body = run_custom_report(last.clinic_id,
                          [last.config EXCEPT !.group_by = <<"doctor">>],
                          db, last.at).body

\* C10 witness: service was named first, the report has a row for a doctor, and
\* the report by service alone has rows too
C10_BothGiven ==
    /\ last.kind = "custom"
    /\ last.config.domain = "financial"
    /\ last.config.group_by = <<"service", "doctor">>
    /\ last.body.rows # {}
    /\ run_custom_report(last.clinic_id, [last.config EXCEPT !.group_by = <<"service">>],
                         db, last.at).body.rows # {}

-----------------------------------------------------------------------------
(* SpecTenants: two runs side by side.  Both hold the same rows of clinic 1   *)
(* and serve the same requests of clinic 1.  The first run (db, cache, last)  *)
(* is the reference: clinic 2 has no rows and makes no requests.  In the      *)
(* second run (run2) the rows of clinic 2 and the requests of its users are   *)
(* free.  Two runs that both equal the reference equal each other.            *)

Patient(id, clinic_id, date_of_birth) ==
    [id |-> id, clinic_id |-> clinic_id, date_of_birth |-> date_of_birth]

\* one entry point called by a user of clinic u: the outcome of the call
Handle(kind, u, config, D, C, t, strict) ==
    IF kind = "financial"
    THEN get_financial_analytics(u, config.period, D,
             CacheGet(C, CacheKey(kind, u, config.period), t, strict), t, {})
    ELSE IF kind = "clinical"
    THEN get_clinical_analytics(u, config.period, D,
             CacheGet(C, CacheKey(kind, u, config.period), t, strict), t)
    ELSE IF kind = "inventory"
    THEN get_inventory_analytics(u, config.period, D, t)
    ELSE run_custom_report(u, config, D, t)

\* the cache after the call: analytics_cache.set(cache_key, resp, ttl_seconds=300)
Stored(C, kind, u, config, r, t) ==
    IF r.cache_set THEN CacheSet(C, CacheKey(kind, u, config.period), r.body, TTL, t) ELSE C

\* what the caller sees of the call
Seen(kind, u, config, r) ==
    [kind |-> kind, clinic_id |-> u, config |-> config,
     status |-> r.status, body |-> r.body, queries |-> r.queries]

\* rows of clinic 1, the same in both runs from the start
OwnBase ==
    [EmptyDb EXCEPT
        !.appointments = { Appointment(1, 1, 1, 1, AddDays(NowBase, -2), "completed") },
        !.patients = { Patient(1, 1, Ymd2Ord(1990, 5, 20)) },
        !.diagnoses = { Diagnosis(1, 1, "J00", "Resfriado") },
        !.invoices = { Invoice(1, 1, "ISSUED", 10000, AddDays(NowBase, -10),
                               AddDays(NowBase, -31), 1) },
        !.lines = { Line(1, 1, 1, 6000, 2) },
        !.payments = { Payment(1, 1, "COMPLETED", 4000) }]

\* rows a user of clinic 1 may add, to both runs at once
OwnWrites ==
    { [EmptyDb EXCEPT !.invoices =
          { Invoice(3, 1, "ISSUED", 5000, AddDays(NowBase, -3), NoInstant, 1) }] }

\* rows of clinic 2, added to one run or the other
OtherWrites ==
    { [EmptyDb EXCEPT
          !.appointments = { Appointment(2, 2, 2, 2, AddDays(NowBase, -3), "scheduled") },
          !.patients = { Patient(2, 2, Ymd2Ord(2010, 1, 2)) },
          !.diagnoses = { Diagnosis(2, 2, "J00", "Resfriado") }],
      [EmptyDb EXCEPT
          !.invoices = { Invoice(4, 2, "ISSUED", 3000, AddDays(NowBase, -10),
                                 AddDays(NowBase, -5), 0) },
          !.lines = { Line(4, 4, 1, 3000, 1) },
          !.payments = { Payment(4, 4, "PENDING", 3000) }] }

Tables == {"invoices", "payments", "lines", "appointments", "patients", "diagnoses"}

Merge(D, E) == [tb \in Tables |-> D[tb] \cup E[tb]]

TenantKinds == {"financial", "clinical", "inventory", "custom"}

TenantConfigs(kind) ==
    IF kind = "custom"
    THEN { Config("appointments", "last_30_days", <<"doctor">>),
           Config("financial", "last_30_days", <<"service">>),
           Config("clinical", "last_30_days", <<>>) }
    ELSE { Config(kind, "last_30_days", <<>>) }

InitTenants ==
    /\ db = OwnBase
    /\ cache = {}
    /\ now = NowBase
    /\ ticks = 0
    /\ last = NoRequest
    /\ hist = NoHist
    /\ served = 0
    /\ run2 = [db |-> OwnBase, cache |-> {}, last |-> NoRequest]
    /\ flight = NoFlight

\* a user of clinic 1 calls an entry point: the same call in both runs
OwnRequest ==
    \E kind \in TenantKinds, strict \in BOOLEAN :
        \E cfg \in TenantConfigs(kind) :
            \E r1 \in { Handle(kind, 1, cfg, db, cache, now, strict) },
               r2 \in { Handle(kind, 1, cfg, run2.db, run2.cache, now, strict) } :
                /\ served < MaxServed
                /\ served' = served + 1
                /\ cache' = Stored(cache, kind, 1, cfg, r1, now)
                /\ last' = Seen(kind, 1, cfg, r1)
                /\ run2' = [run2 EXCEPT !.cache = Stored(@, kind, 1, cfg, r2, now),
                                        !.last = Seen(kind, 1, cfg, r2)]
                /\ UNCHANGED <<db, now, ticks, hist, flight>>

\* a user of clinic 2 calls a cached entry point, in the second run
OtherRequest ==
    \E kind \in {"financial", "clinical"}, strict \in BOOLEAN :
        \E cfg \in TenantConfigs(kind) :
            \E r2 \in { Handle(kind, 2, cfg, run2.db, run2.cache, now, strict) } :
                /\ served < MaxServed
                /\ served' = served + 1
                /\ run2' = [run2 EXCEPT !.cache = Stored(@, kind, 2, cfg, r2, now)]
                /\ UNCHANGED <<db, cache, now, ticks, last, hist, flight>>

\* the CRUD collaborators write rows of clinic 1: the same rows in both runs
OwnWrite ==
    \E w \in OwnWrites :
        /\ db' = Merge(db, w)
        /\ db' # db
        /\ run2' = [run2 EXCEPT !.db = Merge(@, w)]
        /\ UNCHANGED <<cache, now, ticks, last, hist, served, flight>>

\* the CRUD collaborators write rows of clinic 2 in the second run
OtherWrite ==
    \E w \in OtherWrites :
        /\ run2' = [run2 EXCEPT !.db = Merge(@, w)]
        /\ run2' # run2
        /\ UNCHANGED <<db, cache, now, ticks, last, hist, served, flight>>

NextTenants ==
    \/ OwnRequest
    \/ OtherRequest
    \/ OwnWrite
    \/ OtherWrite

SpecTenants == InitTenants /\ [][NextTenants]_vars

\* C2: no cross-tenant leakage: for every analytics entry point (clinical,
\* financial, inventory, custom report), freshly computed or served from the
\* cache, the response to a caller of clinic 1 is the same in two runs that differ
\* only in the rows owned by clinic 2 and in the requests made by its users.
C2_NoCrossTenantLeak ==
    last.kind # "none" =>
        /\ run2.last.kind = last.kind
        /\ run2.last.config = last.config
        /\ run2.last.status = last.status
        /\ run2.last.body = last.body

\* C2 witness: the second run holds invoices and appointments of clinic 2 and a
\* cached response of one of its users, the reference run holds neither, and
\* clinic 1 was answered from the cache
C2_RunsDiffer ==
    /\ last.kind = "financial"
    /\ last.queries = 0
    /\ last.body.total_revenue > 0
    /\ db.invoices # run2.db.invoices
    /\ db.appointments # run2.db.appointments
    /\ \E x \in run2.cache : x.key[2] = 2 /\ \A y \in cache : y.key # x.key

-----------------------------------------------------------------------------
(* SpecPeriod: _period_to_dates over period tokens and readings of the clock *)

\* period tokens callers send: the five the function knows and others
PeriodTokens ==
    {"last_7_days", "last_30_days", "last_3_months", "last_year", "last_month",
     "", "yesterday", "LAST_MONTH"}

KnownTokens == {"last_7_days", "last_30_days", "last_3_months", "last_year", "last_month"}

\* dates the clock is read on: every day of a January, the ends and starts of
\* months of every length, leap and common years, the turn of the year
PeriodDays ==
    { Ymd2Ord(2024, 1, d) : d \in {1, 2, 15, 30, 31} }
    \cup { Ymd2Ord(2024, 2, 1), Ymd2Ord(2024, 2, 29), Ymd2Ord(2024, 3, 1),
           Ymd2Ord(2024, 3, 31), Ymd2Ord(2024, 5, 1), Ymd2Ord(2024, 12, 31),
           Ymd2Ord(2023, 2, 28), Ymd2Ord(2023, 3, 1), Ymd2Ord(2025, 1, 1),
           Ymd2Ord(2025, 3, 30), Ymd2Ord(2000, 3, 1), Ymd2Ord(2100, 3, 1) }

\* times of the day the clock is read at: the first and the last instant included
PeriodTimes ==
    { [sec |-> 0, us |-> 0], [sec |-> 0, us |-> 1], [sec |-> 43200, us |-> 500000],
      [sec |-> 86399, us |-> 0], [sec |-> 86399, us |-> 999999] }

InitPeriod ==
    /\ db \in { EmptyDb, OwnBase }
    /\ cache = {}
    /\ \E d \in PeriodDays, h \in PeriodTimes : now = [day |-> d, sec |-> h.sec, us |-> h.us]
    /\ ticks = 0
    /\ last = NoRequest
    /\ hist = NoHist
    /\ served = 0
    /\ run2 = NoRequest
    /\ flight = NoFlight

\* one call of _period_to_dates(period): the clock is read once, inside the call
ResolvePeriod ==
    \E period \in PeriodTokens :
        \E pair \in { _period_to_dates(period, now) } :
            /\ served < MaxServed
            /\ served' = served + 1
            /\ last' = [kind |-> "period", period |-> period, at |-> now,
                        start |-> pair[1], end |-> pair[2],
                        prev |-> IF last.kind = "period"
                                 THEN [period |-> last.period, at |-> last.at,
                                       start |-> last.start, end |-> last.end]
                                 ELSE [period |-> "none", at |-> NoInstant,
                                       start |-> NoInstant, end |-> NoInstant]]
            /\ UNCHANGED <<db, cache, now, ticks, hist, run2, flight>>

NextPeriod == ResolvePeriod

SpecPeriod == InitPeriod /\ [][NextPeriod]_vars

\* the calendar month before the month of t, as <<year, month>>
PreviousMonth(t) ==
    LET y == OrdYear(t.day)
        m == OrdMonth(t.day)
    IN  IF m = 1 THEN <<y - 1, 12>> ELSE <<y, m - 1>>

\* the number of days each rolling token goes back
ClaimDays(period) ==
    IF period = "last_7_days" THEN 7
    ELSE IF period = "last_30_days" THEN 30
    ELSE IF period = "last_3_months" THEN 90
    ELSE 365

\* end - start as <<days, seconds, microseconds>>, normalised as a timedelta
Delta(a, b) ==
    LET du == a.us - b.us
        carry == IF du < 0 THEN 1 ELSE 0
        ds == a.sec - b.sec - carry
        borrow == IF ds < 0 THEN 1 ELSE 0
    IN  <<a.day - b.day - borrow, ds + borrow * SecondsPerDay, du + carry * 1000000>>

\* C11: for every period token, known or not, and every reading of the clock,
\* _period_to_dates returns a pair with end >= start, and a call with the same
\* token at the same reading of the clock returns the same pair as the call before.
C11_EndNotBeforeStart ==
    last.kind = "period" =>
        /\ Leq(last.start, last.end)
        /\ (last.prev.period = last.period /\ last.prev.at = last.at) =>
               (last.prev.start = last.start /\ last.prev.end = last.end)

\* C11 witness: last_month was resolved twice at one reading of the clock, on the
\* first instant of a month
C11_SameCallTwice ==
    /\ last.kind = "period"
    /\ last.period = "last_month"
    /\ last.prev.period = "last_month"
    /\ last.at = FirstOfMonth(last.at)
    /\ served = 2

\* C12: for every reading of the clock, _period_to_dates("last_month") returns a
\* start and an end that both lie in the calendar month just before the month of
\* the reading, and the start is the first instant of that month.
C12_LastMonthInsidePreviousMonth ==
    (last.kind = "period" /\ last.period = "last_month") =>
        /\ MonthOf(last.start) = PreviousMonth(last.at)
        /\ MonthOf(last.end) = PreviousMonth(last.at)
        /\ last.start = FirstOfMonth(last.start)

\* C12 witness: last_month resolved on a day of January gives December of the
\* year before
C12_JanuaryGivesDecember ==
    /\ last.kind = "period"
    /\ last.period = "last_month"
    /\ OrdMonth(last.at.day) = 1
    /\ OrdDay(last.at.day) = 31
    /\ MonthOf(last.start) = <<OrdYear(last.at.day) - 1, 12>>
    /\ OrdDay(last.end.day) = 31

\* C13: for last_7_days, last_30_days, last_3_months and last_year the end is the
\* reading of the clock and the start is that same reading minus exactly 7, 30, 90
\* and 365 days, so end - start is exactly the length of the period.
C13_RollingPeriods ==
    (last.kind = "period" /\ last.period \in KnownTokens \ {"last_month"}) =>
        /\ last.end = last.at
        /\ last.start = AddDays(last.at, -ClaimDays(last.period))
        /\ Delta(last.end, last.start) = <<ClaimDays(last.period), 0, 0>>

\* C13 witness: last_3_months resolved on 2024-03-31 starts on 2024-01-01, 90 days
\* before, across the leap day
C13_QuarterAcrossLeapDay ==
    /\ last.kind = "period"
    /\ last.period = "last_3_months"
    /\ last.at.day = Ymd2Ord(2024, 3, 31)
    /\ last.at.us = 999999
    /\ last.start.day = Ymd2Ord(2024, 1, 1)
    /\ last.start.us = 999999

\* C14: for every token outside the five known ones _period_to_dates raises no
\* error and returns the pair it returns for last_30_days at the same reading of
\* the clock.
C14_UnknownTokenIsLast30Days ==
    (last.kind = "period" /\ last.period \notin KnownTokens) =>
        /\ last.start = AddDays(last.at, -30)
        /\ last.end = last.at
        /\ (last.prev.period = "last_30_days" /\ last.prev.at = last.at) =>
               (last.prev.start = last.start /\ last.prev.end = last.end)

\* C14 witness: last_30_days and then a token in the wrong case were resolved at
\* the same reading of the clock
C14_WrongCaseAfterLast30Days ==
    /\ last.kind = "period"
    /\ last.period = "LAST_MONTH"
    /\ last.prev.period = "last_30_days"
    /\ last.prev.at = last.at

-----------------------------------------------------------------------------
(* SpecAge: get_clinical_analytics over patients born around every boundary  *)
(* of the age groups                                                          *)

\* the days the request is made on
AgeTodays ==
    { Ymd2Ord(2024, 3, 15), Ymd2Ord(2024, 2, 29), Ymd2Ord(2023, 2, 28),
      Ymd2Ord(2024, 3, 1), Ymd2Ord(2023, 3, 1), Ymd2Ord(2024, 1, 1),
      Ymd2Ord(2024, 12, 31) }

\* whole years around the thresholds of the groups
AgeYears == {0, 1, 17, 18, 19, 35, 36, 37, 55, 56, 57, 90}

\* does the date y-m-d exist
ValidDate(y, m, d) == m \in 1..12 /\ d \in 1..DaysInMonth(y, m)

\* dates of birth: the day exactly n years before today, the day before it and the
\* day after it; 29 February of a leap year about n years before; no date at all
AgeBirths(today) ==
    LET y == OrdYear(today)
        m == OrdMonth(today)
        d == OrdDay(today)
    IN  { Ymd2Ord(y - n, m, d) + k : n \in { n \in AgeYears : ValidDate(y - n, m, d) },
                                     k \in {-1, 0, 1} }
        \cup { Ymd2Ord(2004, 2, 29), Ymd2Ord(1988, 2, 29) }
        \cup { 0 }

InitAge ==
    /\ \E today \in AgeTodays, sec \in {0, 86399} :
         /\ now = [day |-> today, sec |-> sec, us |-> 0]
         /\ \E dob \in AgeBirths(today) :
              db = [EmptyDb EXCEPT
                      !.patients = { Patient(1, 1, dob) },
                      !.appointments =
                          { Appointment(1, 1, 1, 1, AddDays(now, -1), "completed") }]
    /\ cache = {}
    /\ ticks = 0
    /\ last = NoRequest
    /\ hist = NoHist
    /\ served = 0
    /\ run2 = NoRequest
    /\ flight = NoFlight

\* one request per behaviour: the handler applied to the store drawn by Init
NextAge ==
    /\ served = 0
    /\ ClinicalRequest({1}, {"last_30_days"})

SpecAge == InitAge /\ [][NextAge]_vars

\* y-m-d is on or before the day `today`, as calendar dates
OnOrBefore(y, m, d, today) ==
    \/ y < OrdYear(today)
    \/ y = OrdYear(today) /\ m < OrdMonth(today)
    \/ y = OrdYear(today) /\ m = OrdMonth(today) /\ d <= OrdDay(today)

\* completed years: the number of anniversaries of dob that have come by today
CompletedYears(dob, today) ==
    Cardinality({ k \in 1..120 :
        OnOrBefore(OrdYear(dob) + k, OrdMonth(dob), OrdDay(dob), today) })

\* the group C15 gives an age
ClaimAgeGroup(age) ==
    IF age <= 17 THEN "0-17"
    ELSE IF age \in 18..35 THEN "18-35"
    ELSE IF age \in 36..55 THEN "36-55"
    ELSE "56+"

\* the patient of the store
ThePatient == CHOOSE p \in db.patients : TRUE

\* the count the last response gives for an age group
AgeCount(r, g) ==
    LET rows == r.body.patients_by_age_group
    IN  (CHOOSE k \in DOMAIN rows : rows[k].age_group = g)

\* C15: the age is the number of completed years between the date of birth and
\* today, and the patient is counted once in the group of that age and in no
\* other: age <= 17 in 0-17, 18..35 in 18-35, 36..55 in 36-55, >= 56 in 56+.  A
\* patient born exactly 18 years before today is in 18-35 and one born a day
\* later is in 0-17.
C15_AgeGroupBoundaries ==
    (last.kind = "clinical" /\ last.status = 200 /\ ThePatient.date_of_birth # 0) =>
        LET rows == last.body.patients_by_age_group
            dob == ThePatient.date_of_birth
            age == CompletedYears(dob, now.day)
        IN  \A k \in DOMAIN rows :
                rows[k].count = IF rows[k].age_group = ClaimAgeGroup(age) THEN 1 ELSE 0

\* C15 witness: the patient was born one day after the day 18 years before today
\* and is counted in 0-17
C15_OneDayShortOf18 ==
    /\ last.kind = "clinical"
    /\ now.day = Ymd2Ord(2024, 3, 15)
    /\ ThePatient.date_of_birth = Ymd2Ord(2006, 3, 16)
    /\ last.body.patients_by_age_group[1] = [age_group |-> "0-17", count |-> 1]
    /\ last.body.patients_by_age_group[2] = [age_group |-> "18-35", count |-> 0]

-----------------------------------------------------------------------------
(* SpecVisits: get_clinical_analytics over patients with none, one or several *)
(* appointments inside and outside the interval, with and without a date of   *)
(* birth                                                                       *)

VisitPatients ==
    { Patient(1, 1, Ymd2Ord(1990, 5, 20)),
      Patient(2, 1, 0),
      Patient(3, 1, Ymd2Ord(2010, 1, 2)),
      Patient(4, 2, Ymd2Ord(1950, 7, 7)) }

VisitAppointments ==
    { Appointment(1, 1, 1, 1, AddDays(NowBase, -2), "completed"),
      Appointment(2, 1, 1, 1, AddDays(NowBase, -9), "completed"),
      Appointment(3, 1, 1, 1, AddDays(NowBase, -45), "completed"),
      Appointment(4, 1, 1, 2, AddDays(NowBase, -3), "scheduled"),
      Appointment(5, 1, 1, 3, AddDays(NowBase, -4), "cancelled"),
      Appointment(6, 2, 2, 4, AddDays(NowBase, -5), "completed") }

InitVisits ==
    /\ \E ps \in SUBSET VisitPatients, as \in SUBSET VisitAppointments :
          /\ Cardinality(as) <= MaxAppointments
          /\ \A a \in as : \E q \in ps : q.id = a.patient_id
          /\ db = [EmptyDb EXCEPT !.patients = ps, !.appointments = as]
    /\ cache = {}
    /\ now = NowBase
    /\ ticks = 0
    /\ last = NoRequest
    /\ hist = NoHist
    /\ served = 0
    /\ run2 = NoRequest
    /\ flight = NoFlight

\* one request per behaviour: the handler applied to the store drawn by Init
NextVisits ==
    /\ served = 0
    /\ ClinicalRequest({1, 2}, {"last_30_days", "last_7_days"})

SpecVisits == InitVisits /\ [][NextVisits]_vars

\* the appointments of the caller's clinic inside the interval of the last request
VisitsInInterval(r) ==
    { a \in db.appointments :
        /\ a.clinic_id = r.clinic_id
        /\ Leq(IntervalOf(r)[1], a.scheduled_datetime)
        /\ Leq(a.scheduled_datetime, IntervalOf(r)[2]) }

\* the patients seen in the interval whose date of birth is known
SeenWithBirth(r) ==
    { q \in db.patients :
        /\ q.date_of_birth # 0
        /\ \E a \in VisitsInInterval(r) : a.patient_id = q.id }

\* the count the last response lists for an age group
CountOf(r, g) ==
    LET rows == r.body.patients_by_age_group
    IN  rows[CHOOSE k \in DOMAIN rows : rows[k].age_group = g].count

\* C23: patients_by_age_group counts patients, not appointments: the count of a
\* group is the number of patients seen in the interval, with a known date of
\* birth, whose age is in the group; a patient adds 1 to one group however many
\* appointments the patient has in the interval.
C23_CountsPatients ==
    (last.kind = "clinical" /\ last.status = 200) =>
        \A g \in {"0-17", "18-35", "36-55", "56+"} :
            CountOf(last, g) =
                Cardinality({ q \in SeenWithBirth(last) :
                    ClaimAgeGroup(CompletedYears(q.date_of_birth, now.day)) = g })

\* C23 witness: a patient with a known date of birth has two appointments in the
\* interval, and the response counts 2 in the patient's group
C23_TwoVisitsOnePatient ==
    /\ last.kind = "clinical"
    /\ last.status = 200
    /\ Cardinality(SeenWithBirth(last)) = 1
    /\ Cardinality(VisitsInInterval(last)) = 2
    /\ CountOf(last, "18-35") = 2

\* C24: a missing date of birth is not an error and is left out of every group:
\* the response lists the four groups 0-17, 18-35, 36-55, 56+ in that order, and
\* their counts add up to the number of selected rows (one per appointment of the
\* clinic in the interval, joined to its patient) whose date of birth is present.
C24_MissingBirthExcluded ==
    last.kind = "clinical" =>
        /\ last.status = 200
        /\ Len(last.body.patients_by_age_group) = 4
        /\ last.body.patients_by_age_group[1].age_group = "0-17"
        /\ last.body.patients_by_age_group[2].age_group = "18-35"
        /\ last.body.patients_by_age_group[3].age_group = "36-55"
        /\ last.body.patients_by_age_group[4].age_group = "56+"
        /\ last.body.patients_by_age_group[1].count
             + last.body.patients_by_age_group[2].count
             + last.body.patients_by_age_group[3].count
             + last.body.patients_by_age_group[4].count
           = Cardinality({ a \in VisitsInInterval(last) :
                 \E q \in db.patients : q.id = a.patient_id /\ q.date_of_birth # 0 })

\* C24 witness: one selected row has a date of birth and one has none; the counts
\* add up to 1
C24_OneRowWithoutBirth ==
    /\ last.kind = "clinical"
    /\ last.status = 200
    /\ Cardinality(VisitsInInterval(last)) = 2
    /\ \E a \in VisitsInInterval(last) :
          \E q \in db.patients : q.id = a.patient_id /\ q.date_of_birth = 0
    /\ CountOf(last, "18-35") = 1
    /\ CountOf(last, "0-17") + CountOf(last, "36-55") + CountOf(last, "56+") = 0

-----------------------------------------------------------------------------
(* SpecMonthEnd: get_financial_analytics for last_month over invoices issued  *)
(* at the edges of the previous calendar month, to the microsecond            *)

\* readings of the clock for the request
MonthEndNows ==
    { [day |-> Ymd2Ord(2024, 3, 15), sec |-> 43200, us |-> 0],
      [day |-> Ymd2Ord(2024, 3, 1), sec |-> 0, us |-> 0],
      [day |-> Ymd2Ord(2024, 1, 31), sec |-> 86399, us |-> 999999],
      [day |-> Ymd2Ord(2023, 3, 2), sec |-> 1, us |-> 1] }

\* instants around the previous calendar month of the reading t: its first and
\* last microsecond, its last whole second, the microsecond after that, the middle
\* of the month, and the microseconds just outside the month
MonthEdgeInstants(t) ==
    LET first_this == FirstOfMonth(t)
        last_day == first_this.day - 1
        first_prev == FirstOfMonth([day |-> last_day, sec |-> 0, us |-> 0])
    IN  { first_prev,
          [day |-> first_prev.day - 1, sec |-> 86399, us |-> 999999],
          [day |-> first_prev.day + 14, sec |-> 43200, us |-> 250000],
          [day |-> last_day, sec |-> 86399, us |-> 0],
          [day |-> last_day, sec |-> 86399, us |-> 1],
          [day |-> last_day, sec |-> 86399, us |-> 999999],
          first_this }

InitMonthEnd ==
    /\ now \in MonthEndNows
    /\ \E ts \in SUBSET MonthEdgeInstants(now) :
          /\ Cardinality(ts) <= MaxInvoices
          /\ db = [EmptyDb EXCEPT !.invoices =
                      { Invoice((t.day % 100) * 10 + (t.us % 10), 1, "ISSUED", 10000, t,
                                NoInstant, 0) : t \in ts }]
    /\ cache = {}
    /\ ticks = 0
    /\ last = NoRequest
    /\ hist = NoHist
    /\ served = 0
    /\ run2 = NoRequest
    /\ flight = NoFlight

\* one request per behaviour: the handler applied to the store drawn by Init
NextMonthEnd ==
    /\ served = 0
    /\ FinancialRequest({1}, {"last_month"}, {{}})

SpecMonthEnd == InitMonthEnd /\ [][NextMonthEnd]_vars

\* the instant one microsecond before t
MicrosecondBefore(t) ==
    IF t.us > 0 THEN [t EXCEPT !.us = @ - 1]
    ELSE IF t.sec > 0 THEN [t EXCEPT !.sec = @ - 1, !.us = 999999]
    ELSE [day |-> t.day - 1, sec |-> SecondsPerDay - 1, us |-> 999999]

\* the invoices of the caller's clinic issued in the calendar month before the
\* month of the last request
IssuedInPreviousMonth(r) ==
    { i \in db.invoices :
        /\ i.clinic_id = r.clinic_id
        /\ i.status # "CANCELLED"
        /\ MonthOf(i.issue_date) = PreviousMonth(r.at) }

\* C25: for last_month the end is the last instant before the first instant of
\* the current month, at the resolution of the timestamps of the store, so that
\* every invoice issued anywhere in the previous calendar month lies between start
\* and end and is counted.
C25_WholePreviousMonthIncluded ==
    (last.kind = "financial" /\ last.status = 200) =>
        /\ IntervalOf(last)[2] = MicrosecondBefore(FirstOfMonth(last.at))
        /\ \A i \in IssuedInPreviousMonth(last) :
              Leq(IntervalOf(last)[1], i.issue_date)
              /\ Leq(i.issue_date, IntervalOf(last)[2])
        /\ last.body.total_invoices = Cardinality(IssuedInPreviousMonth(last))

\* C25 witness: one invoice, issued in the last second of the previous month but
\* not on the second, and the response for last_month counts no invoice
C25_IssuedInLastSecond ==
    /\ last.kind = "financial"
    /\ last.status = 200
    /\ Cardinality(db.invoices) = 1
    /\ \E i \in IssuedInPreviousMonth(last) :
          i.issue_date.sec = 86399 /\ i.issue_date.us > 0
    /\ last.body.total_invoices = 0
    /\ last.body.total_revenue = 0

-----------------------------------------------------------------------------
(* SpecTotals: get_financial_analytics over stores whose totals do not divide *)
(* evenly, and over stores with no invoice in the interval                    *)

TotalsInvoices ==
    { Invoice(1, 1, "ISSUED", 10000, AddDays(NowBase, -10), NoInstant, 0),
      Invoice(2, 1, "PAID", 5, AddDays(NowBase, -1), NoInstant, 0),
      Invoice(3, 1, "ISSUED", 3334, AddDays(NowBase, -30), NoInstant, 0),
      Invoice(4, 1, "DRAFT", 1, NowBase, NoInstant, 0),
      Invoice(5, 1, "CANCELLED", 7000, AddDays(NowBase, -10), NoInstant, 0),
      Invoice(6, 1, "ISSUED", 900, AddDays(NowBase, -200), NoInstant, 0),
      Invoice(7, 2, "ISSUED", 3000, AddDays(NowBase, -10), NoInstant, 0) }

InitTotals ==
    /\ \E invs \in SUBSET TotalsInvoices :
          /\ Cardinality(invs) <= MaxInvoices + 1
          /\ db = [EmptyDb EXCEPT !.invoices = invs]
    /\ cache = {}
    /\ now = NowBase
    /\ ticks = 0
    /\ last = NoRequest
    /\ hist = NoHist
    /\ served = 0
    /\ run2 = NoRequest
    /\ flight = NoFlight

\* one request per behaviour: the handler applied to the store drawn by Init
NextTotals ==
    /\ served = 0
    /\ FinancialRequest({1}, {"last_30_days", "last_7_days"}, {{}})

SpecTotals == InitTotals /\ [][NextTotals]_vars

\* the invoices the totals are about: of the caller's clinic, not cancelled,
\* issued inside the interval of the request
TotalsScope(r) ==
    LET se == _period_to_dates(r.config.period, r.at)
    IN  { i \in db.invoices :
            /\ i.clinic_id = r.clinic_id
            /\ i.status # "CANCELLED"
            /\ Leq(se[1], i.issue_date)
            /\ Leq(i.issue_date, se[2]) }

TotalsSum(r) == SumFun([i \in TotalsScope(r) |-> i.total_amount], TotalsScope(r))

TotalsDenominator(r) ==
    IF Cardinality(TotalsScope(r)) > 1 THEN Cardinality(TotalsScope(r)) ELSE 1

\* C16 as stated: average_invoice_value equals total_revenue divided by
\* max(total_invoices, 1), and is 0.0 with no division by zero when no
\* non-cancelled invoice of the clinic falls in the interval.
C16_AverageIsExactQuotient ==
    last.kind = "financial" =>
        /\ last.status = 200
        /\ last.body.average_invoice_value * TotalsDenominator(last) = TotalsSum(last)

\* C16 amended: the request succeeds for every store content and
\* average_invoice_value is total_revenue divided by max(total_invoices, 1)
\* rounded to 2 decimals, so within half a cent of the quotient; it is 0.0 when
\* no non-cancelled invoice of the clinic falls in the interval.
C16_AverageIsRoundedQuotient ==
    last.kind = "financial" =>
        LET avg == last.body.average_invoice_value
            m == TotalsDenominator(last)
            diff == avg * m - TotalsSum(last)
        IN  /\ last.status = 200
            /\ last.body.total_invoices = Cardinality(TotalsScope(last))
            /\ last.body.total_revenue = TotalsSum(last)
            /\ 2 * diff <= m
            /\ -2 * diff <= m
            /\ (TotalsScope(last) = {}) => (avg = 0)

\* C16 witness: the store holds a cancelled invoice, an invoice of another clinic
\* and an invoice issued before the interval, none in the scope: the average is 0
C16_NoInvoiceInInterval ==
    /\ last.kind = "financial"
    /\ Cardinality(db.invoices) = 3
    /\ TotalsScope(last) = {}
    /\ last.body.total_invoices = 0
    /\ last.body.average_invoice_value = 0

-----------------------------------------------------------------------------
(* Cost per procedure of a service item with no quantity, under SpecRevenue *)

\* the lines of a service item that cost_per_procedure is about in the last request
ScopeLines(r, item) ==
    { l \in db.lines :
        /\ l.service_item_id = item.id
        /\ \E i \in TotalsScope(r) : i.id = l.invoice_id }

\* the service items with lines in the scope whose quantities add up to zero
ZeroQuantityItems(r) ==
    { v \in ServiceItems :
        /\ ScopeLines(r, v) # {}
        /\ SumFun([l \in ScopeLines(r, v) |-> l.quantity], ScopeLines(r, v)) = 0 }

\* the last request computed cost_per_procedure
CostComputed(r) ==
    r.kind = "financial" /\ r.status = 200 /\ r.queries > 0 /\ "cpp" \notin r.failed

\* a fraction with denominator 0 stands for a null average
NullAverage == <<0, 0>>

\* C17 as stated: a service item whose summed quantity is zero has a null average
\* cost in the response, not a number and not an error.
C17_ZeroQuantityIsNull ==
    CostComputed(last) =>
        \A v \in ZeroQuantityItems(last) :
            \E row \in last.body.cost_per_procedure :
                row.service_name = v.name /\ row.avg_cost = NullAverage

\* C17 amended: a service item whose summed quantity is zero is listed in
\* cost_per_procedure with the number 0.0 as its average cost, and the request
\* does not fail.
C17_ZeroQuantityIsZero ==
    (last.kind = "financial" /\ last.queries > 0 /\ last.failed = {}) =>
        /\ last.status = 200
        /\ \A v \in ZeroQuantityItems(last) :
              /\ \E row \in last.body.cost_per_procedure : row.service_name = v.name
              /\ \A row \in last.body.cost_per_procedure :
                    row.service_name = v.name => row.avg_cost = <<0, 1>>

\* C17 witness: the only line of Exame in the scope has line total 40.00 and
\* quantity 0, and a response was computed
C17_LineWithoutQuantity ==
    /\ CostComputed(last)
    /\ ZeroQuantityItems(last) # {}
    /\ \E l \in db.lines : l.quantity = 0 /\ l.line_total = 4000
    /\ Cardinality(last.body.cost_per_procedure) = 2

-----------------------------------------------------------------------------
(* SpecConcurrent: the cached handlers as coroutines of one event loop.  A    *)
(* handler runs without interruption from one await to the next: the cache    *)
(* lookup at its start, each db.execute, and the building, caching and return *)
(* of the response at its end.  Other handlers and writers of the store run    *)
(* at the awaits.                                                              *)

\* the statements a cached handler awaits, in order
Statements(kind) ==
    IF kind = "clinical"
    THEN <<"top_diagnoses", "patients_by_age_group", "appointments_by_status",
           "consultations_by_doctor">>
    ELSE FinancialQueries

\* what one statement gives when it is executed on the store D
Execute(name, D, c, s, e, t) ==
    CASE name = "top_diagnoses" -> TopDiagnoses(D, c, s, e)
      [] name = "patients_by_age_group" -> PatientsByAgeGroup(D, c, s, e, t)
      [] name = "appointments_by_status" -> AppointmentsByStatus(D, c, s, e)
      [] name = "consultations_by_doctor" -> ConsultationsByDoctor(D, c, s, e)
      [] name = "rev_doctor" -> RevenueByDoctor(D, c, s, e)
      [] name = "rev_service" -> RevenueByService(D, c, s, e)
      [] name = "month" -> MonthlyRevenueTrend(D, c, s, e)
      [] name = "total" -> Totals(D, c, s, e)
      [] name = "aging" -> ArAging(D, c, e, t)
      [] name = "cpp" -> CostPerProcedure(D, c, s, e)

\* the result of a statement in `got` (statement name -> result), or the value the
\* handler's variable has before the statement has run
ResultOr(got, name, default) == IF name \in DOMAIN got THEN got[name] ELSE default

\* resp as the handler builds it from the results of its statements
Response(kind, period, t, got) ==
    LET se == _period_to_dates(period, t)
        tot == ResultOr(got, "total", <<0, 0>>)
    IN  IF kind = "clinical"
        THEN [period |-> period,
              start_date |-> IsoFormat(se[1]),
              end_date |-> IsoFormat(se[2]),
              top_diagnoses |-> ResultOr(got, "top_diagnoses", {}),
              patients_by_age_group |-> ResultOr(got, "patients_by_age_group", <<>>),
              appointments_by_status |-> ResultOr(got, "appointments_by_status", {}),
              consultations_by_doctor |-> ResultOr(got, "consultations_by_doctor", {})]
        ELSE [period |-> period,
              start_date |-> IsoFormat(se[1]),
              end_date |-> IsoFormat(se[2]),
              revenue_by_doctor |-> ResultOr(got, "rev_doctor", {}),
              revenue_by_service |-> ResultOr(got, "rev_service", {}),
              monthly_revenue_trend |-> ResultOr(got, "month", {}),
              total_revenue |-> tot[2],
              average_invoice_value |-> AverageInvoiceValue(tot[1], tot[2]),
              total_invoices |-> tot[1],
              ar_aging |-> ResultOr(got, "aging", ZeroBuckets),
              cost_per_procedure |-> ResultOr(got, "cpp", {}),
              denial_patterns |-> {}]

\* SetPoint with the response cached as soon as the first statement has run
SetPointEarly(kind) == 1

\* the number of statements that have run when the handler calls
\* analytics_cache.set: all of them
SetPoint(kind) == Len(Statements(kind))

IdleFlight == [pc |-> "idle"]

DoneFlight == [pc |-> "done"]

Flights == 1..MaxFlights

ConcurrentKinds == {"clinical", "financial"}

\* rows the CRUD collaborators add while requests are in progress
ConcurrentWrites ==
    { [EmptyDb EXCEPT
          !.appointments = { Appointment(3, 1, 1, 1, AddDays(NowBase, -1), "scheduled") },
          !.invoices = { Invoice(3, 1, "ISSUED", 5000, AddDays(NowBase, -3),
                                 AddDays(NowBase, -2), 3) }] }

InitConcurrent ==
    /\ db = OwnBase
    /\ cache = {}
    /\ now = NowBase
    /\ ticks = 0
    /\ last = NoRequest
    /\ hist = [computed |-> {}, called |-> {}]
    /\ served = 0
    /\ run2 = NoRequest
    /\ flight = [id \in Flights |-> IdleFlight]

\* a handler starts: period resolved, cache looked up; a hit is returned at once
Begin(id) ==
    \E kind \in ConcurrentKinds, u \in {1, 2}, strict \in BOOLEAN :
        LET key == CacheKey(kind, u, "last_30_days")
            got == CacheGet(cache, key, now, strict)
        IN  /\ flight[id].pc = "idle"
            /\ IF got[1]
               THEN /\ flight' = [flight EXCEPT ![id] = DoneFlight]
                    /\ last' = [kind |-> kind, clinic_id |-> u, id |-> id, key |-> key,
                                status |-> 200, body |-> got[2], queries |-> 0,
                                prev |-> EntryOf(hist.computed, key)]
               ELSE /\ flight' = [flight EXCEPT ![id] =
                                    [pc |-> "running", kind |-> kind, clinic_id |-> u,
                                     at |-> now, got |-> << >>]]
                    /\ UNCHANGED last
            /\ UNCHANGED <<db, cache, now, ticks, hist, served, run2>>

\* the handler's next statement is executed on the store as it is now
Await(id) ==
    LET f == flight[id]
        names == Statements(f.kind)
        k == Cardinality(DOMAIN f.got) + 1
        se == _period_to_dates("last_30_days", f.at)
        got == [n \in DOMAIN f.got \cup {names[k]} |->
                   IF n \in DOMAIN f.got THEN f.got[n]
                   ELSE Execute(n, db, f.clinic_id, se[1], se[2], now)]
    IN  /\ f.pc = "running"
        /\ Cardinality(DOMAIN f.got) < Len(Statements(f.kind))
        /\ IF k = Len(names)
           THEN \* the last statement: resp is built and returned
                /\ flight' = [flight EXCEPT ![id] = DoneFlight]
                /\ last' = [kind |-> f.kind, clinic_id |-> f.clinic_id, id |-> id,
                            key |-> CacheKey(f.kind, f.clinic_id, "last_30_days"),
                            status |-> 200,
                            body |-> Response(f.kind, "last_30_days", f.at, got),
                            queries |-> k,
                            prev |-> EntryOf(hist.computed,
                                        CacheKey(f.kind, f.clinic_id, "last_30_days"))]
                /\ hist' = [computed |->
                               PutEntry(hist.computed,
                                        CacheKey(f.kind, f.clinic_id, "last_30_days"),
                                        now, 200,
                                        Response(f.kind, "last_30_days", f.at, got)),
                            called |-> hist.called \cup
                               { [key |-> CacheKey(f.kind, f.clinic_id, "last_30_days"),
                                  id |-> id,
                                  body |-> Response(f.kind, "last_30_days", f.at, got)] }]
           ELSE /\ flight' = [flight EXCEPT ![id].got = got]
                /\ UNCHANGED <<last, hist>>
        /\ cache' = IF k = SetPoint(f.kind)
                    THEN CacheSet(cache, CacheKey(f.kind, f.clinic_id, "last_30_days"),
                                  Response(f.kind, "last_30_days", f.at, got), TTL, now)
                    ELSE cache
        /\ UNCHANGED <<db, now, ticks, served, run2>>

\* the CRUD collaborators add rows while requests are in progress
ConcurrentWrite ==
    \E w \in ConcurrentWrites :
        /\ db' = Merge(db, w)
        /\ db' # db
        /\ UNCHANGED <<cache, now, ticks, last, hist, served, run2, flight>>

NextConcurrent ==
    \/ \E id \in Flights : Begin(id)
    \/ \E id \in Flights : Await(id)
    \/ ConcurrentWrite

SpecConcurrent == InitConcurrent /\ [][NextConcurrent]_vars

\* the requests that computed a response for the key, each with what it returned
ComputedFor(key) == { c \in hist.called : c.key = key }

\* C18: whatever the interleaving of concurrent requests, every cache entry holds,
\* whole, the response that one single request computed for that same key, and it
\* is the one of the request that wrote last; a hit returns such a response; a
\* request that missed while another was computing the same key still runs all
\* its statements and returns 200 with its own response, so that the only effect
\* of the race is a second computation.
C18_CacheNeverCorrupted ==
    /\ \A x \in cache :
          /\ \E c \in ComputedFor(x.key) : c.body = x.value
          /\ EntryOf(hist.computed, x.key).body = x.value
    /\ \A c \in hist.called : \E x \in cache : x.key = c.key
    /\ last # NoRequest =>
          /\ last.status = 200
          /\ last.queries = 0 =>
                /\ last.prev # NoEntry
                /\ last.body = last.prev.body
                /\ \E c \in ComputedFor(last.key) : c.body = last.body
          /\ last.queries # 0 =>
                /\ last.queries = Len(Statements(last.kind))
                /\ \E x \in cache : x.key = last.key /\ x.value = last.body

\* two requests missed on the same key, the store changed between their
\* statements, they returned different responses, and the cache holds the
\* response of the one that finished last
C18_TwoWritersOneKey ==
    /\ last # NoRequest
    /\ last.queries # 0
    /\ \E c \in ComputedFor(last.key) : c.id # last.id /\ c.body # last.body
    /\ \E x \in cache : x.key = last.key /\ x.value = last.body

-----------------------------------------------------------------------------
(* SpecFrame: every entry point of the analytics router, called in any order  *)
(* over a store that nothing else writes to, at one reading of the clock.     *)

FrameCallers == {1}

FrameFaults == { {}, {"aging"}, {"total"} }

FrameConfigs ==
    { Config("appointments", "last_30_days", <<"doctor">>),
      Config("financial", "last_30_days", <<"service">>),
      Config("clinical", "last_30_days", << >>),
      Config("inventory", "last_30_days", << >>) }

\* GET /analytics/inventory
InventoryRequest(callers, periods) ==
    \E u \in callers, p \in periods :
        /\ Serve("inventory", u, Config("inventory", p, << >>), {},
                 CacheKey("inventory", u, p), get_inventory_analytics(u, p, db, now))
        /\ UNCHANGED <<now, ticks, run2, flight>>

\* POST /analytics/schedule: a stub that takes no session and answers at once
ScheduleRequest(callers, periods) ==
    \E u \in callers, p \in periods, report_type \in {"clinical", "financial"} :
        /\ Serve("schedule", u, Config(report_type, p, << >>), {},
                 CacheKey("schedule", u, p),
                 Outcome("none", 200, "",
                         [message |-> "Report scheduled", report_type |-> report_type,
                          period |-> p, email |-> "a@b.c"],
                         0, FALSE, FALSE))
        /\ UNCHANGED <<now, ticks, run2, flight>>

\* the export entry points: the clinical PDF and the financial workbook call the
\* cached handler with the caller's session and render what it returns; the
\* custom workbook renders the payload and takes no session.  The record of the
\* request keeps the data that was rendered.
ExportRequest(callers, periods, faultsets) ==
    \E u \in callers, p \in periods, f \in faultsets, strict \in BOOLEAN,
       what \in {"clinical", "financial", "custom"} :
        LET key == CacheKey(what, u, p)
        IN  /\ what # "financial" => f = {}
            /\ \E r \in { IF what = "clinical"
                          THEN get_clinical_analytics(u, p, db,
                                   CacheGet(cache, key, now, strict), now)
                          ELSE IF what = "financial"
                          THEN get_financial_analytics(u, p, db,
                                   CacheGet(cache, key, now, strict), now, f)
                          ELSE Outcome("none", 200, "", [columns |-> "a,b", rows |-> 2],
                                       0, FALSE, FALSE) } :
                   Serve("export", u, Config(what, p, << >>), f, key, r)
            /\ UNCHANGED <<now, ticks, run2, flight>>

InitFrame ==
    /\ db = OwnBase
    /\ cache = {}
    /\ now = NowBase
    /\ ticks = 0
    /\ last = NoRequest
    /\ hist = NoHist
    /\ served = 0
    /\ run2 = NoRequest
    /\ flight = NoFlight

NextFrame ==
    \/ FinancialRequest(FrameCallers, {"last_30_days"}, FrameFaults)
    \/ ClinicalRequest(FrameCallers, {"last_30_days"})
    \/ InventoryRequest(FrameCallers, {"last_30_days"})
    \/ CustomRequest(FrameCallers, FrameConfigs)
    \/ ScheduleRequest(FrameCallers, {"last_30_days"})
    \/ ExportRequest(FrameCallers, {"last_30_days"}, FrameFaults)

SpecFrame == InitFrame /\ [][NextFrame]_vars

\* C19: no call to an analytics, custom-report, schedule or export entry point
\* creates, modifies or deletes a persisted row: every step leaves the store as
\* it was, and the result cache is the only part of the state that the calls
\* change.
C19_AnalyticsOnlyReads == [][db' = db]_vars

\* a financial request ran all its statements, rolled the session back after the
\* failed aging statement and cached its response, after a request that had
\* already filled the cache for another key
C19_RolledBackAndCached ==
    /\ last # NoRequest
    /\ last.kind \in {"financial", "export"}
    /\ "aging" \in last.failed
    /\ last.cache_set
    /\ Cardinality(cache) >= 2
    /\ db = OwnBase

-----------------------------------------------------------------------------
(* SpecPatients: DELETE /patients/{patient_id}, called by users of every role  *)
(* and clinic on a store of patients.                                          *)

UserRoles == {"admin", "secretary", "doctor", "patient"}

\* the authenticated users: one of each role in each clinic
PatientCallers ==
    { [id |-> 10 * c + k, clinic_id |-> c, role |-> rl] :
        c \in {1, 2}, k \in {1}, rl \in UserRoles }

PatientSamples ==
    { Patient(1, 1, Ymd2Ord(1990, 5, 20)),
      Patient(2, 1, 0),
      Patient(3, 2, Ymd2Ord(2010, 1, 2)) }

\* the dependency RoleChecker(allowed): the request goes on for a user whose
\* role is allowed and is refused otherwise
RoleChecker(allowed, user) == user.role \in allowed

require_staff(user) == RoleChecker({"admin", "secretary", "doctor"}, user)

\* delete_patient with the role test left to the staff check
delete_patient_by_staff(patient_id, current_user, D) ==
    LET found == { q \in D.patients :
                     q.id = patient_id /\ q.clinic_id = current_user.clinic_id }
    IN  IF ~require_staff(current_user)
        THEN [status |-> 403, detail |-> "Operation not permitted", db |-> D]
        ELSE IF found = {}
        THEN [status |-> 404, detail |-> "Patient not found", db |-> D]
        ELSE [status |-> 204, detail |-> "",
              db |-> [D EXCEPT !.patients = @ \ found]]

\* the outcome of the handler and the store it leaves
delete_patient(patient_id, current_user, D) ==
    LET found == { q \in D.patients :
                     q.id = patient_id /\ q.clinic_id = current_user.clinic_id }
    IN  IF ~require_staff(current_user)
        THEN [status |-> 403, detail |-> "Operation not permitted", db |-> D]
        ELSE IF current_user.role # "admin"
        THEN [status |-> 403, detail |-> "Only admins can delete patients", db |-> D]
        ELSE IF found = {}
        THEN [status |-> 404, detail |-> "Patient not found", db |-> D]
        ELSE [status |-> 204, detail |-> "",
              db |-> [D EXCEPT !.patients = @ \ found]]

InitPatients ==
    /\ \E ps \in SUBSET PatientSamples :
          /\ Cardinality(ps) >= 2
          /\ db = [EmptyDb EXCEPT !.patients = ps]
          /\ hist = [initial |-> ps, removed |-> {}]
    /\ cache = {}
    /\ now = NowBase
    /\ ticks = 0
    /\ last = NoRequest
    /\ served = 0
    /\ run2 = NoRequest
    /\ flight = NoFlight

\* one call of DELETE /patients/{patient_id}; the history keeps who was answered
\* 204 for which patient
DeletePatient ==
    \E u \in PatientCallers, patient_id \in 1..4 :
        \E r \in { delete_patient(patient_id, u, db) } :
            /\ served < MaxServed
            /\ served' = served + 1
            /\ db' = r.db
            /\ last' = [kind |-> "delete_patient", user |-> u, patient_id |-> patient_id,
                        status |-> r.status, detail |-> r.detail,
                        before |-> db.patients]
            /\ hist' = IF r.status = 204
                       THEN [hist EXCEPT !.removed =
                                @ \cup { [patient_id |-> patient_id, by |-> u] }]
                       ELSE hist
            /\ UNCHANGED <<cache, now, ticks, run2, flight>>

NextPatients == DeletePatient

SpecPatients == InitPatients /\ [][NextPatients]_vars

\* C20: delete_patient called by a user who is not an admin fails with 403 and
\* leaves the set of patients as it was; and every patient that is no longer in
\* the store was removed by a call that an admin of the patient's own clinic
\* made.
C20_OnlyAdminsDelete ==
    /\ (last # NoRequest /\ last.user.role # "admin") =>
          /\ db.patients = last.before
          /\ last.user.role \in {"secretary", "doctor"} =>
                /\ last.status = 403
                /\ last.detail = "Only admins can delete patients"
    /\ \A q \in hist.initial \ db.patients :
          \E x \in hist.removed :
             /\ x.patient_id = q.id
             /\ x.by.role = "admin"
             /\ x.by.clinic_id = q.clinic_id
    /\ db.patients \subseteq hist.initial

\* a secretary was refused with 403 for a patient of the secretary's own clinic
\* that is still there, after an admin of that clinic had removed another one
C20_SecretaryRefusedAfterAdminDeleted ==
    /\ last # NoRequest
    /\ last.user.role = "secretary"
    /\ last.status = 403
    /\ \E q \in db.patients :
          q.id = last.patient_id /\ q.clinic_id = last.user.clinic_id
    /\ \E x \in hist.removed : x.by.clinic_id = last.user.clinic_id

-----------------------------------------------------------------------------
(* SpecRecords: the patient endpoints called in any order by users of two     *)
(* clinics                                                                     *)

\* a Patient row with the columns the patient endpoints read and write; "" is None
PatientRow(id, clinic_id, cpf, email) ==
    [id |-> id, clinic_id |-> clinic_id, date_of_birth |-> 0, cpf |-> cpf,
     email |-> email]

\* the authenticated users
RecordCallers ==
    { [id |-> 11, clinic_id |-> 1, role |-> "admin", email |-> "adm@a"],
      [id |-> 12, clinic_id |-> 1, role |-> "secretary", email |-> "sec@a"],
      [id |-> 13, clinic_id |-> 1, role |-> "patient", email |-> "eva@a"],
      [id |-> 21, clinic_id |-> 2, role |-> "admin", email |-> "adm@b"] }

RecordCpfs == {"", "111", "222"}

RecordEmails == {"eva@a", "ivo@a"}

RecordPatients ==
    { PatientRow(1, 1, "111", "eva@a"),
      PatientRow(2, 1, "222", "ivo@a"),
      PatientRow(3, 2, "111", "lia@b") }

\* PatientCreate bodies
CreateBodies ==
    { [clinic_id |-> c, cpf |-> cpf, email |-> "ivo@a"] :
        c \in {1, 2}, cpf \in RecordCpfs }

\* PatientUpdate bodies: the fields that are set (model_dump(exclude_unset=True))
UpdateBodies ==
    { [f \in {"cpf"} |-> cpf] : cpf \in RecordCpfs }
    \cup { [f \in {"email"} |-> e] : e \in RecordEmails }
    \cup { [f \in {} |-> ""] }

\* patient_in.cpf: None when the field is not set
CpfOf(body) == IF "cpf" \in DOMAIN body THEN body.cpf ELSE ""

\* for field, value in update_data.items(): setattr(patient, field, value)
SetAttrs(q, update_data) ==
    [f \in DOMAIN q |-> IF f \in DOMAIN update_data THEN update_data[f] ELSE q[f]]

Forbidden(D) ==
    [status |-> 403, detail |-> "Operation not permitted", body |-> NoBody, db |-> D]

NotFound(D) ==
    [status |-> 404, detail |-> "Patient not found", body |-> NoBody, db |-> D]

list_patients(current_user, D) ==
    IF ~require_staff(current_user) THEN Forbidden(D)
    ELSE [status |-> 200, detail |-> "",
          body |-> { q \in D.patients : q.clinic_id = current_user.clinic_id },
          db |-> D]

\* get_patient with the clinic left out of the filter
get_patient_of_any_clinic(patient_id, current_user, D) ==
    LET found == { q \in D.patients : q.id = patient_id }
    IN  IF ~require_staff(current_user) THEN Forbidden(D)
        ELSE IF found = {} THEN NotFound(D)
        ELSE [status |-> 200, detail |-> "", body |-> found, db |-> D]

get_patient(patient_id, current_user, D) ==
    LET found == { q \in D.patients :
                     q.id = patient_id /\ q.clinic_id = current_user.clinic_id }
    IN  IF ~require_staff(current_user) THEN Forbidden(D)
        ELSE IF found = {} THEN NotFound(D)
        ELSE [status |-> 200, detail |-> "", body |-> found, db |-> D]

\* new_id: the id the store gives the new row
create_patient(patient_in, current_user, D, new_id) ==
    LET existing == { q \in D.patients :
                        q.cpf = patient_in.cpf /\ q.clinic_id = current_user.clinic_id }
        db_patient == PatientRow(new_id, patient_in.clinic_id, patient_in.cpf,
                                 patient_in.email)
    IN  IF ~require_staff(current_user) THEN Forbidden(D)
        ELSE IF patient_in.clinic_id # current_user.clinic_id
        THEN [status |-> 403, detail |-> "Cannot create patient for a different clinic",
              body |-> NoBody, db |-> D]
        ELSE IF patient_in.cpf # "" /\ existing # {}
        THEN [status |-> 400, detail |-> "Patient with this CPF already exists",
              body |-> NoBody, db |-> D]
        ELSE [status |-> 201, detail |-> "", body |-> {db_patient},
              db |-> [D EXCEPT !.patients = @ \cup {db_patient}]]

update_patient(patient_id, patient_in, current_user, D) ==
    LET found == { q \in D.patients :
                     q.id = patient_id /\ q.clinic_id = current_user.clinic_id }
        db_patient == CHOOSE q \in found : TRUE
        existing == { q \in D.patients :
                        /\ q.cpf = CpfOf(patient_in)
                        /\ q.clinic_id = current_user.clinic_id
                        /\ q.id # patient_id }
    IN  IF ~require_staff(current_user) THEN Forbidden(D)
        ELSE IF found = {} THEN NotFound(D)
        ELSE IF CpfOf(patient_in) # "" /\ CpfOf(patient_in) # db_patient.cpf
                /\ existing # {}
        THEN [status |-> 400, detail |-> "Patient with this CPF already exists",
              body |-> NoBody, db |-> D]
        ELSE [status |-> 200, detail |-> "",
              body |-> { SetAttrs(db_patient, patient_in) },
              db |-> [D EXCEPT !.patients =
                        (@ \ found) \cup { SetAttrs(db_patient, patient_in) }]]

\* the profile is found by the caller's email; scalar_one_or_none raises
\* MultipleResultsFound when two rows match, which no handler catches
update_my_patient_profile(patient_update, current_user, D) ==
    LET found == { q \in D.patients :
                     q.email = current_user.email
                     /\ q.clinic_id = current_user.clinic_id }
        patient == CHOOSE q \in found : TRUE
    IN  IF found = {}
        THEN [status |-> 404, detail |-> "Patient profile not found", body |-> NoBody,
              db |-> D]
        ELSE IF Cardinality(found) > 1
        THEN [status |-> 500, detail |-> "MultipleResultsFound", body |-> NoBody,
              db |-> D]
        ELSE [status |-> 200, detail |-> "",
              body |-> { SetAttrs(patient, patient_update) },
              db |-> [D EXCEPT !.patients =
                        (@ \ found) \cup { SetAttrs(patient, patient_update) }]]

InitRecords ==
    /\ db = [EmptyDb EXCEPT !.patients = RecordPatients]
    /\ cache = {}
    /\ now = NowBase
    /\ ticks = 0
    /\ last = NoRequest
    /\ hist = NoHist
    /\ served = 0
    /\ run2 = NoRequest
    /\ flight = NoFlight

\* what a call to a patient endpoint leaves behind; body is the set of patients
\* in the response
Answer(kind, u, patient_id, body, r) ==
    /\ served < MaxServed
    /\ served' = served + 1
    /\ db' = r.db
    /\ last' = [kind |-> kind, user |-> u, patient_id |-> patient_id, sent |-> body,
                status |-> r.status, detail |-> r.detail,
                body |-> IF r.status \in {200, 201} THEN r.body ELSE {},
                before |-> db.patients]
    /\ UNCHANGED <<cache, now, ticks, hist, run2, flight>>

ListPatients ==
    \E u \in RecordCallers :
        \E r \in { list_patients(u, db) } : Answer("list_patients", u, 0, << >>, r)

GetPatient ==
    \E u \in RecordCallers, patient_id \in 1..3 :
        \E r \in { get_patient(patient_id, u, db) } :
            Answer("get_patient", u, patient_id, << >>, r)

CreatePatient ==
    \E u \in RecordCallers, patient_in \in CreateBodies :
        /\ Cardinality(db.patients) < MaxPatients
        /\ \E r \in { create_patient(patient_in, u, db, 10 + served) } :
              Answer("create_patient", u, 0, patient_in, r)

UpdatePatient ==
    \E u \in RecordCallers, patient_id \in 1..3, patient_in \in UpdateBodies :
        \E r \in { update_patient(patient_id, patient_in, u, db) } :
            Answer("update_patient", u, patient_id, patient_in, r)

UpdateMyPatientProfile ==
    \E u \in RecordCallers, patient_update \in UpdateBodies :
        \E r \in { update_my_patient_profile(patient_update, u, db) } :
            Answer("update_my_patient_profile", u, 0, patient_update, r)

RemovePatient ==
    \E u \in RecordCallers, patient_id \in 1..3 :
        \E r \in { delete_patient(patient_id, u, db) } :
            Answer("delete_patient", u, patient_id, << >>,
                   [status |-> r.status, detail |-> r.detail, body |-> NoBody,
                    db |-> r.db])

NextRecords ==
    \/ ListPatients
    \/ GetPatient
    \/ CreatePatient
    \/ UpdatePatient
    \/ UpdateMyPatientProfile
    \/ RemovePatient

SpecRecords == InitRecords /\ [][NextRecords]_vars

\* the pairs of patients of one clinic that share a CPF
SameCpf(ps) ==
    { pair \in ps \X ps :
        /\ pair[1] # pair[2]
        /\ pair[1].clinic_id = pair[2].clinic_id
        /\ pair[1].cpf # ""
        /\ pair[1].cpf = pair[2].cpf }

\* C26: CPF uniqueness per clinic is an invariant of the patient endpoints: from a
\* store with no duplicates, after any sequence of create_patient, update_patient,
\* update_my_patient_profile and delete_patient calls, no two patients of the same
\* clinic have the same non-empty CPF.
C26_CpfUniquePerClinic == SameCpf(db.patients) = {}

\* C26 witness: a call of update_my_patient_profile answered 200 on a store without
\* duplicates and left two patients of the caller's clinic with the same CPF
C26_ProfileTakesCpfOfAnother ==
    /\ last # NoRequest
    /\ last.kind = "update_my_patient_profile"
    /\ last.status = 200
    /\ SameCpf(last.before) = {}
    /\ SameCpf(db.patients) # {}

\* the patients of clinics other than the caller's
Foreign(ps, u) == { q \in ps : q.clinic_id # u.clinic_id }

\* the last call was addressed by id to a patient of another clinic
ForeignTarget(r) ==
    /\ r.kind \in {"get_patient", "update_patient", "delete_patient"}
    /\ \E q \in Foreign(r.before, r.user) : q.id = r.patient_id

\* the endpoints C30 is about
IsolatedEndpoints ==
    {"list_patients", "get_patient", "create_patient", "update_patient",
     "delete_patient"}

\* C30 as stated: get_patient, update_patient and delete_patient addressed to a
\* patient of a clinic other than the caller's answer 404 and leave that patient
\* unchanged; create_patient with a clinic_id other than the caller's answers 403
\* and creates nothing; list_patients returns only patients of the caller's
\* clinic.  Callers are staff (admin, secretary, doctor).
C30_ForeignPatientIs404 ==
    (last # NoRequest /\ last.kind \in IsolatedEndpoints /\ require_staff(last.user)) =>
        /\ Foreign(db.patients, last.user) = Foreign(last.before, last.user)
        /\ ForeignTarget(last) => last.status = 404
        /\ (last.kind = "create_patient" /\ last.sent.clinic_id # last.user.clinic_id) =>
              (last.status = 403 /\ db.patients = last.before)
        /\ last.kind = "list_patients" => Foreign(last.body, last.user) = {}

\* C30 amended: a call of list_patients, get_patient, create_patient, update_patient
\* or delete_patient never returns, creates, changes or removes a patient of a
\* clinic other than the caller's.  Addressed to such a patient, get_patient and
\* update_patient by staff and delete_patient by an admin answer 404;
\* delete_patient by a secretary or a doctor answers 403, as it does for every
\* patient; create_patient by staff with a clinic_id other than the caller's
\* answers 403 and creates nothing.
C30_NoCrossClinicAccess ==
    (last # NoRequest /\ last.kind \in IsolatedEndpoints) =>
        /\ Foreign(db.patients, last.user) = Foreign(last.before, last.user)
        /\ Foreign(last.body, last.user) = {}
        /\ (ForeignTarget(last) /\ require_staff(last.user)) =>
              /\ db.patients = last.before
              /\ last.body = {}
              /\ last.status =
                    IF last.kind = "delete_patient" /\ last.user.role # "admin"
                    THEN 403 ELSE 404
        /\ (last.kind = "create_patient" /\ require_staff(last.user)
              /\ last.sent.clinic_id # last.user.clinic_id) =>
              (last.status = 403 /\ db.patients = last.before)
        /\ (last.kind = "create_patient" /\ last.status = 201) =>
              \A q \in db.patients \ last.before : q.clinic_id = last.user.clinic_id

\* C30 witness: an admin of one clinic asked for a patient of the other by its id,
\* was answered 404 and the patient is still there, after a patient of the
\* caller's own clinic had been changed or removed
C30_AdminAsksForForeignPatient ==
    /\ last # NoRequest
    /\ last.kind \in {"get_patient", "update_patient", "delete_patient"}
    /\ last.user.role = "admin"
    /\ ForeignTarget(last)
    /\ last.status = 404
    /\ \E q \in db.patients : q.id = last.patient_id
    /\ db.patients # RecordPatients

-----------------------------------------------------------------------------
(* SpecClinics: create_clinic, update_clinic and update_clinic_license called  *)
(* by admins as coroutines of one event loop.  A handler runs without          *)
(* interruption from one await to the next: the select of the clinic, each     *)
(* existence check and the commit are awaited, and other handlers run there.   *)

\* a Clinic row with the columns the handlers test and write; "" is None
ClinicRow(id, tax_id, license_key) ==
    [id |-> id, tax_id |-> tax_id, license_key |-> license_key]

ClinicRows == { ClinicRow(1, "T1", "L1"), ClinicRow(2, "T2", "") }

\* the calls admins make: the handler, the clinic addressed (0 for a creation) and
\* the fields set in the body
ClinicCalls ==
    { [op |-> "create_clinic", clinic_id |-> 0,
       data |-> [tax_id |-> "T3", license_key |-> k]] : k \in {"", "L3"} }
    \cup { [op |-> "update_clinic", clinic_id |-> c, data |-> d] :
             c \in {1, 2},
             d \in { [f \in {"tax_id"} |-> "T3"], [f \in {"tax_id"} |-> "T2"],
                     [f \in {"license_key"} |-> "L3"] } }
    \cup { [op |-> "update_clinic_license", clinic_id |-> c,
            data |-> [f \in {"license_key"} |-> k]] :
             c \in {1, 3}, k \in {"L3", "L1"} }

\* the value the body gives a field, None when it does not set it
Sent(data, field) == IF field \in DOMAIN data THEN data[field] ELSE ""

\* does the handler await the existence check of the field before it commits
Checks(f, field) ==
    IF f.op = "create_clinic"
    THEN field = "tax_id" \/ Sent(f.data, field) # ""
    ELSE /\ field = "license_key" \/ f.op = "update_clinic"
         /\ Sent(f.data, field) # ""
         /\ Sent(f.data, field) # f.clinic[field]

\* the await a handler reaches next, after the clinic is loaded or a check passed
AwaitAfter(f, passed) ==
    IF passed = "select" /\ Checks(f, "tax_id") THEN "tax_id"
    ELSE IF passed \in {"select", "tax_id"} /\ Checks(f, "license_key")
    THEN "license_key"
    ELSE "commit"

InitClinics ==
    /\ db = [clinics |-> ClinicRows]
    /\ cache = {}
    /\ now = NowBase
    /\ ticks = 0
    /\ last = NoRequest
    /\ hist = [computed |-> {}, called |-> {}]
    /\ served = 0
    /\ run2 = NoRequest
    /\ flight = [id \in Flights |-> IdleFlight]

\* the call is over: its answer is recorded
Return(id, f, status, detail) ==
    /\ flight' = [flight EXCEPT ![id] = DoneFlight]
    /\ last' = [kind |-> f.op, id |-> id, clinic_id |-> f.clinic_id, sent |-> f.data,
                status |-> status, detail |-> detail]
    /\ hist' = [hist EXCEPT !.called =
                  @ \cup { [id |-> id, op |-> f.op, sent |-> f.data, status |-> status] }]

\* a call arrives and runs to its first await
CallClinic(id) ==
    \E c \in ClinicCalls :
        /\ flight[id].pc = "idle"
        /\ flight' = [flight EXCEPT ![id] =
                        [pc |-> IF c.op = "create_clinic" THEN "tax_id" ELSE "select",
                         op |-> c.op, clinic_id |-> c.clinic_id, data |-> c.data,
                         clinic |-> ClinicRow(0, "", "")]]
        /\ UNCHANGED <<db, cache, now, ticks, last, hist, served, run2>>

\* select(Clinic).filter(Clinic.id == clinic_id) comes back
SelectClinic(id) ==
    LET f == flight[id]
        found == { c \in db.clinics : c.id = f.clinic_id }
    IN  /\ f.pc = "select"
        /\ IF found = {}
           THEN Return(id, f, 404, "Clinic not found")
           ELSE /\ flight' = [flight EXCEPT ![id] =
                     [f EXCEPT !.clinic = CHOOSE c \in found : TRUE,
                               !.pc = AwaitAfter([f EXCEPT !.clinic =
                                          CHOOSE c \in found : TRUE], "select")]]
                /\ UNCHANGED <<last, hist>>
        /\ UNCHANGED <<db, cache, now, ticks, served, run2>>

\* the existence check of tax_id or license_key comes back; scalar_one_or_none
\* raises MultipleResultsFound when two rows match, which no handler catches
CheckExisting(id) ==
    LET f == flight[id]
        existing == { c \in db.clinics : c[f.pc] = Sent(f.data, f.pc) }
    IN  /\ f.pc \in {"tax_id", "license_key"}
        /\ IF Cardinality(existing) > 1
           THEN Return(id, f, 500, "MultipleResultsFound")
           ELSE IF existing # {}
           THEN Return(id, f, 400,
                       IF f.pc = "tax_id" THEN "Clinic with this tax ID already exists"
                       ELSE "License key already exists")
           ELSE /\ flight' = [flight EXCEPT ![id].pc = AwaitAfter(f, f.pc)]
                /\ UNCHANGED <<last, hist>>
        /\ UNCHANGED <<db, cache, now, ticks, served, run2>>

\* db.commit(): the new row is inserted, or the attributes that were given a new
\* value are written to the row of the clinic
CommitClinic(id) ==
    LET f == flight[id]
        changed == { field \in DOMAIN f.data : f.data[field] # f.clinic[field] }
    IN  /\ f.pc = "commit"
        /\ db' = [db EXCEPT !.clinics =
                    IF f.op = "create_clinic"
                    THEN @ \cup { ClinicRow(10 + id, f.data.tax_id, f.data.license_key) }
                    ELSE { IF c.id = f.clinic_id
                           THEN [field \in DOMAIN c |->
                                   IF field \in changed THEN f.data[field] ELSE c[field]]
                           ELSE c : c \in @ }]
        /\ Return(id, f, 200, "")
        /\ UNCHANGED <<cache, now, ticks, served, run2>>

NextClinics ==
    \/ \E id \in Flights : CallClinic(id)
    \/ \E id \in Flights : SelectClinic(id)
    \/ \E id \in Flights : CheckExisting(id)
    \/ \E id \in Flights : CommitClinic(id)

SpecClinics == InitClinics /\ [][NextClinics]_vars

\* the pairs of clinics that share the value of a field
SameValue(field) ==
    { pair \in db.clinics \X db.clinics :
        /\ pair[1] # pair[2]
        /\ pair[1][field] # ""
        /\ pair[1][field] = pair[2][field] }

\* the calls answered 200 that set the field to the value
Succeeded(field, value) ==
    { c \in hist.called : c.status = 200 /\ Sent(c.sent, field) = value }

\* C27: clinic tax_id and license_key stay unique under concurrency: however
\* create_clinic, update_clinic and update_clinic_license calls interleave at their
\* awaits, at most one of the calls that set the same tax_id (or the same
\* license_key) succeeds, and no two clinics have the same tax_id or the same
\* non-empty license_key.
C27_ClinicKeysUnique ==
    /\ SameValue("tax_id") = {}
    /\ SameValue("license_key") = {}
    /\ Cardinality(Succeeded("tax_id", "T3")) <= 1
    /\ Cardinality(Succeeded("license_key", "L3")) <= 1

\* C27 witness: two calls that set the same tax_id both passed the existence check
\* before either committed, both were answered 200, and two clinics have that
\* tax_id
C27_BothPassedTheCheck ==
    /\ Cardinality(Succeeded("tax_id", "T3")) = 2
    /\ \E pair \in SameValue("tax_id") : pair[1].tax_id = "T3"
    /\ \A id \in Flights : flight[id].pc \in {"idle", "done"}

====
